---- MODULE Spec2Model ----
(***************************************************************************)
(* A model of the cornifer/scry streaming GZIP decoder: the bit reader,    *)
(* the sliding window, the Huffman tables, the GZIP header reader, the     *)
(* Deflator state machine and the Checkpointer it drives.                  *)
(*                                                                         *)
(* 32-bit unsigned values (CRC registers, the ISIZE counter, the trailer   *)
(* fields) are kept as pairs <<hi, lo>> of 16-bit halves so that their     *)
(* width is exact.                                                         *)
(***************************************************************************)
EXTENDS Integers, Sequences, FiniteSets, TLC

\* ------------------------------------------------------------------------
\* Bounds of the exploration
\* ------------------------------------------------------------------------

\* capacity of the sliding window in the explored runs (the program uses
\* THIRTY_TWO_KILOBYTES; every window operation is written for any capacity)
WindowCapacity == 6

\* largest small output buffer the caller hands to read
MaxBuf == 2

\* ------------------------------------------------------------------------
\* Integer helpers (fixed-width arithmetic)
\* ------------------------------------------------------------------------

Min(a, b) == IF a < b THEN a ELSE b

\* The(S) is the element of a one-element set.  { e : x \in {v} } evaluates v
\* once and names its value x inside e, so The({ e : x \in {v} }) reads
\* "e where x is v"; it is how the result of a call is bound before its
\* fields are used.
The(S) == CHOOSE v \in S : TRUE

\* TRUE for every value: used in a condition, it makes the value of an
\* accumulator be computed before the recursion continues (evaluation order
\* only)
Forced(v) == v = v

RECURSIVE Pow2(_)
Pow2(n) == IF n = 0 THEN 1 ELSE 2 * Pow2(n - 1)

\* xor of two numbers below 16
Xor4(a, b) ==
    ((a + b) % 2)
    + 2 * (((a \div 2) + (b \div 2)) % 2)
    + 4 * (((a \div 4) + (b \div 4)) % 2)
    + 8 * (((a \div 8) + (b \div 8)) % 2)

\* xor of two numbers below 2^16
BitXor(a, b) ==
    Xor4(a % 16, b % 16)
    + 16 * Xor4((a \div 16) % 16, (b \div 16) % 16)
    + 256 * Xor4((a \div 256) % 16, (b \div 256) % 16)
    + 4096 * Xor4(a \div 4096, b \div 4096)

\* bit i of a natural number
BitAt(v, i) == (v \div Pow2(i)) % 2

\* euclidean remainder of a possibly negative integer (isize::rem_euclid)
rem_euclid(a, m) == ((a % m) + m) % m

U16 == 65536

\* a u32 as <<hi, lo>>
U32Zero == <<0, 0>>

u32_from_le_bytes(b) == <<b[3] + 256 * b[4], b[1] + 256 * b[2]>>

u16_from_le_bytes(b) == b[1] + 256 * b[2]

u32_of_nat(n) == <<n \div U16, n % U16>>

\* u32 addition that stops at u32::MAX: a variant
u32_saturating_inc(v) ==
    IF v = <<U16 - 1, U16 - 1>> THEN v
    ELSE IF v[2] + 1 < U16 THEN <<v[1], v[2] + 1>>
    ELSE <<v[1] + 1, 0>>

\* u32::wrapping_add(1)
u32_wrapping_inc(v) ==
    IF v[2] + 1 < U16 THEN <<v[1], v[2] + 1>>
    ELSE <<(v[1] + 1) % U16, 0>>

\* a usize, wider than the integers of the model checker: <<high, low>> with
\* low below 2^16 and high not bounded by 2^16
UsizeZero == <<0, 0>>

\* usize += 1
usize_inc(v) == IF v[2] + 1 < U16 THEN <<v[1], v[2] + 1>> ELSE <<v[1] + 1, 0>>

\* a usize as a number
usize_value(v) == v[1] * U16 + v[2]

\* ------------------------------------------------------------------------
\* CRC-32/ISO-HDLC as computed by the crc crate's Digest (reflected,
\* polynomial 0xEDB88320, initial register and final xor 0xFFFFFFFF)
\* ------------------------------------------------------------------------

PolyHi == 60856
PolyLo == 33568

crc_shift(reg) ==
    LET hi == reg[1] \div 2
        lo == (reg[2] \div 2) + 32768 * (reg[1] % 2)
    IN  IF reg[2] % 2 = 1 THEN <<BitXor(hi, PolyHi), BitXor(lo, PolyLo)>>
        ELSE <<hi, lo>>

RECURSIVE crc_shifts(_, _)
crc_shifts(reg, n) ==
    IF Forced(reg) /\ n = 0 THEN reg ELSE crc_shifts(crc_shift(reg), n - 1)

\* CRC32.digest()
crc_digest == <<65535, 65535>>

\* Digest::update(&[byte])
crc_update(reg, byte) == crc_shifts(<<reg[1], BitXor(reg[2], byte)>>, 8)

RECURSIVE crc_update_all(_, _)
crc_update_all(reg, bytes) ==
    IF Forced(reg) /\ bytes = <<>> THEN reg
    ELSE crc_update_all(crc_update(reg, Head(bytes)), Tail(bytes))

\* Digest::finalize()
crc_finalize(reg) == <<65535 - reg[1], 65535 - reg[2]>>

\* CRC-32 of a byte string
Crc32Of(bytes) == crc_finalize(crc_update_all(crc_digest, bytes))

\* ------------------------------------------------------------------------
\* Results of fallible operations: err = "" is Ok
\* ------------------------------------------------------------------------

NoErr == ""

\* ------------------------------------------------------------------------
\* CorniferByteReader (cornifer/src/reader.rs)
\*   inner is the unread rest of the byte source; digest is <<>> (None) or
\*   <<register>> (Some)
\* ------------------------------------------------------------------------

\* CorniferByteReader::new
reader_new(bytes) ==
    [current_byte |-> 0, current_bit |-> 0, buffer |-> 0,
     inner |-> bytes, digest |-> <<>>]

\* read_exact_internal that reports a short source as the expected end of
\* input: a variant
read_exact_internal_expected(r, l) ==
    IF Len(r.inner) < l
    THEN [r |-> r, v |-> <<>>, err |-> "ExpectedEOF"]
    ELSE [r |-> [r EXCEPT
                   !.inner = SubSeq(r.inner, l + 1, Len(r.inner)),
                   !.digest = IF r.digest = <<>> THEN <<>>
                              ELSE <<crc_update_all(r.digest[1],
                                                    SubSeq(r.inner, 1, l))>>,
                   !.current_byte = r.current_byte + l],
          v |-> SubSeq(r.inner, 1, l), err |-> NoErr]

\* read_exact_internal: on a short source the read fails with EOF and
\* neither the digest nor current_byte is touched
read_exact_internal(r, l) ==
    IF Len(r.inner) < l
    THEN [r |-> r, v |-> <<>>, err |-> "EOF"]
    ELSE [r |-> [r EXCEPT
                   !.inner = SubSeq(r.inner, l + 1, Len(r.inner)),
                   !.digest = IF r.digest = <<>> THEN <<>>
                              ELSE <<crc_update_all(r.digest[1],
                                                    SubSeq(r.inner, 1, l))>>,
                   !.current_byte = r.current_byte + l],
          v |-> SubSeq(r.inner, 1, l), err |-> NoErr]

read_u8(r) ==
    The({ IF x.err # NoErr THEN [x EXCEPT !.v = 0] ELSE [x EXCEPT !.v = x.v[1]]
          : x \in {read_exact_internal(r, 1)} })

read_u16_le(r) ==
    The({ IF x.err # NoErr THEN [x EXCEPT !.v = 0]
          ELSE [x EXCEPT !.v = u16_from_le_bytes(x.v)]
          : x \in {read_exact_internal(r, 2)} })

read_u32_le(r) ==
    The({ IF x.err # NoErr THEN [x EXCEPT !.v = U32Zero]
          ELSE [x EXCEPT !.v = u32_from_le_bytes(x.v)]
          : x \in {read_exact_internal(r, 4)} })

\* String::from_utf8: is v[i..] well-formed UTF-8 (Unicode table 3-7)
RECURSIVE from_utf8_ok(_, _)
from_utf8_ok(v, i) ==
    IF i > Len(v) THEN TRUE
    ELSE IF v[i] <= 127 THEN from_utf8_ok(v, i + 1)
    ELSE IF i + 1 > Len(v) THEN FALSE
    ELSE IF v[i] >= 194 /\ v[i] <= 223
         THEN v[i + 1] \in 128..191 /\ from_utf8_ok(v, i + 2)
    ELSE IF i + 2 > Len(v) \/ v[i + 2] \notin 128..191 THEN FALSE
    ELSE IF v[i] >= 224 /\ v[i] <= 239
         THEN /\ v[i + 1] \in (IF v[i] = 224 THEN 160..191
                               ELSE IF v[i] = 237 THEN 128..159 ELSE 128..191)
              /\ from_utf8_ok(v, i + 3)
    ELSE IF i + 3 > Len(v) \/ v[i + 3] \notin 128..191 THEN FALSE
    ELSE IF v[i] >= 240 /\ v[i] <= 244
         THEN /\ v[i + 1] \in (IF v[i] = 240 THEN 144..191
                               ELSE IF v[i] = 244 THEN 128..143 ELSE 128..191)
              /\ from_utf8_ok(v, i + 4)
    ELSE FALSE

RECURSIVE read_until_nul(_, _)
read_until_nul(r, v) ==
    The({ IF x.err # NoErr THEN [x EXCEPT !.v = v]
          ELSE IF x.v = 0 THEN [x EXCEPT !.v = v]
          ELSE read_until_nul(x.r, Append(v, x.v))
          : x \in {read_u8(r)} })

read_null_terminated_string(r) ==
    The({ IF x.err # NoErr THEN x
          ELSE IF from_utf8_ok(x.v, 1) THEN x
          ELSE [x EXCEPT !.err = "UTF8Invalid"]
          : x \in {read_until_nul(r, <<>>)} })

begin_crc(r) == [r EXCEPT !.digest = <<crc_digest>>]

\* end_crc: takes the digest; v is <<>> (None) or <<crc>>
end_crc(r) ==
    [r |-> [r EXCEPT !.digest = <<>>],
     v |-> IF r.digest = <<>> THEN <<>> ELSE <<crc_finalize(r.digest[1])>>]

\* read_bit handing out the bits of a byte most significant first
\* ((buffer >> (7 - current_bit)) & 1): a variant
read_bit_msb_first(r) ==
    The({ IF x.err # NoErr THEN x
          ELSE [r |-> [x.r EXCEPT !.buffer = x.v,
                                  !.current_bit = (r.current_bit + 1) % 8],
                v |-> BitAt(x.v, 7 - r.current_bit), err |-> NoErr]
          : x \in {IF r.current_bit = 0 THEN read_u8(r)
                   ELSE [r |-> r, v |-> r.buffer, err |-> NoErr]} })

read_bit(r) ==
    The({ IF x.err # NoErr THEN x
          ELSE [r |-> [x.r EXCEPT !.buffer = x.v,
                                  !.current_bit = (r.current_bit + 1) % 8],
                v |-> BitAt(x.v, r.current_bit), err |-> NoErr]
          : x \in {IF r.current_bit = 0 THEN read_u8(r)
                   ELSE [r |-> r, v |-> r.buffer, err |-> NoErr]} })

RECURSIVE read_bits_from(_, _, _, _)
read_bits_from(r, n, i, value) ==
    IF i >= n THEN [r |-> r, v |-> value, err |-> NoErr]
    ELSE The({ IF x.err # NoErr THEN [x EXCEPT !.v = value]
               ELSE read_bits_from(x.r, n, i + 1, value + x.v * Pow2(i))
               : x \in {read_bit(r)} })

\* read_n_bits_le without the comparison of n with 16: a variant
read_n_bits_le_unchecked(r, n) == read_bits_from(r, n, 0, 0)

read_n_bits_le(r, n) ==
    IF n > 16 THEN [r |-> r, v |-> 0, err |-> "InvalidNumberOfBits"]
    ELSE read_bits_from(r, n, 0, 0)

\* discard_until_next_byte that keeps the bits left: a variant
discard_nothing(r) == r

discard_until_next_byte(r) == [r EXCEPT !.current_bit = 0]

\* ------------------------------------------------------------------------
\* CircularBuffer (cornifer/src/circle.rs); buffer[i + 1] is the code's
\* buffer[i]
\* ------------------------------------------------------------------------

\* CircularBuffer::new with the head the random generator drew
CircularBuffer_new(size, start) ==
    [buffer |-> [i \in 1..size |-> 0], head |-> start,
     gzip_digest |-> crc_digest, block_digest |-> crc_digest,
     counter |-> U32Zero, bytes_written |-> UsizeZero]

\* push that does not count the byte in bytes_written: a variant
push_uncounted(cb, byte) ==
    [buffer |-> [cb.buffer EXCEPT ![cb.head + 1] = byte],
     head |-> (cb.head + 1) % Len(cb.buffer),
     gzip_digest |-> crc_update(cb.gzip_digest, byte),
     block_digest |-> crc_update(cb.block_digest, byte),
     counter |-> u32_wrapping_inc(cb.counter),
     bytes_written |-> cb.bytes_written]

push(cb, byte) ==
    [buffer |-> [cb.buffer EXCEPT ![cb.head + 1] = byte],
     head |-> (cb.head + 1) % Len(cb.buffer),
     gzip_digest |-> crc_update(cb.gzip_digest, byte),
     block_digest |-> crc_update(cb.block_digest, byte),
     counter |-> u32_wrapping_inc(cb.counter),
     bytes_written |-> usize_inc(cb.bytes_written)]

get_bytes_written(cb) == usize_value(cb.bytes_written)

\* the loop of push_from_buffer with the target taken once, before the
\* first push, and moved on by one for each byte: a variant that copies
\* a lookback shorter than the size from the bytes that were there before
RECURSIVE push_from_buffer_loop_fixed(_, _, _)
push_from_buffer_loop_fixed(cb, lookback, k) ==
    IF Forced(cb) /\ k = 0 THEN cb
    ELSE push(push_from_buffer_loop_fixed(cb, lookback, k - 1),
              cb.buffer[rem_euclid(cb.head - lookback + (k - 1), Len(cb.buffer)) + 1])

RECURSIVE push_from_buffer_loop(_, _, _)
push_from_buffer_loop(cb, lookback, k) ==
    IF Forced(cb) /\ k = 0 THEN cb
    ELSE push_from_buffer_loop(
           push(cb, cb.buffer[rem_euclid(cb.head - lookback, Len(cb.buffer)) + 1]),
           lookback, k - 1)

push_from_buffer(cb, lookback, size) ==
    IF lookback > 32768
    THEN [cb |-> cb, err |-> "InvalidLengthDistancePair"]
    ELSE [cb |-> push_from_buffer_loop(cb, lookback, size), err |-> NoErr]

\* head that returns the newest byte first: a variant
window_head_newest_first(cb, n) ==
    [i \in 1..n |-> cb.buffer[rem_euclid(cb.head - i, Len(cb.buffer)) + 1]]

\* CircularBuffer::head (named window_head: Head is the sequence operator)
window_head(cb, n) ==
    [i \in 1..n |->
        cb.buffer[rem_euclid(cb.head - (n - (i - 1)), Len(cb.buffer)) + 1]]

\* crc32 that finalizes the block digest in place of the member digest: a
\* variant
crc32_of_block(cb) ==
    [cb |-> [cb EXCEPT !.gzip_digest = crc_digest],
     v |-> crc_finalize(cb.block_digest)]

\* crc32 that leaves the member digest running: a variant
crc32_running(cb) == [cb |-> cb, v |-> crc_finalize(cb.gzip_digest)]

\* CircularBuffer::crc32: the member digest, replaced by a fresh one
crc32(cb) ==
    [cb |-> [cb EXCEPT !.gzip_digest = crc_digest],
     v |-> crc_finalize(cb.gzip_digest)]

block_crc32(cb) ==
    [cb |-> [cb EXCEPT !.block_digest = crc_digest],
     v |-> crc_finalize(cb.block_digest)]

counter(cb) == [cb |-> [cb EXCEPT !.counter = U32Zero], v |-> cb.counter]

\* the buffer as it lies in memory, not rotated to start at the oldest byte:
\* a variant
get_normalized_buffer_unrotated(cb) == cb.buffer

get_normalized_buffer(cb) == window_head(cb, Len(cb.buffer) % U16)

\* ------------------------------------------------------------------------
\* HuffmanTree (scry/src/huffman.rs): the lut, a function from code value to
\* [symbol, len]; bit_lengths[i + 1] is the length of symbol i
\* ------------------------------------------------------------------------

MAX_HUFFMAN_BITS == 15

\* bl_count[n] for n in 0..MAX_HUFFMAN_BITS (step 1; bl_count[0] is zeroed)
bl_count(bit_lengths) ==
    [n \in 0..MAX_HUFFMAN_BITS |->
        IF n = 0 THEN 0
        ELSE Cardinality({i \in DOMAIN bit_lengths : bit_lengths[i] = n})]

\* the smallest code of each length (step 2), in u16 arithmetic
RECURSIVE next_code(_, _, _, _)
next_code(count, acc, code, bits) ==
    IF bits > MAX_HUFFMAN_BITS THEN acc
    ELSE LET c == ((code + count[bits - 1]) * 2) % U16
         IN  next_code(count, [acc EXCEPT ![bits] = c], c, bits + 1)

\* step 3: symbols in increasing order take the next code of their length:
\* the smallest code plus the number of earlier symbols of that length
final_codes(bit_lengths, first) ==
    [i \in DOMAIN bit_lengths |->
        IF bit_lengths[i] = 0 THEN 0
        ELSE (first[bit_lengths[i]]
              + Cardinality({j \in 1..(i - 1) : bit_lengths[j] = bit_lengths[i]}))
             % U16]

\* step 4: the symbols with a code are inserted in increasing order; an
\* insertion replaces an entry with the same key, so a code value keeps
\* the last symbol stored under it
lut_of(bit_lengths, code) ==
    The({ [c \in {p[1] : p \in ins} |->
             The({ [symbol |-> i - 1, len |-> bit_lengths[i]]
                   : i \in {j \in DOMAIN bit_lengths :
                              /\ <<c, j>> \in ins
                              /\ \A p \in ins : p[1] = c => p[2] <= j} })]
          : ins \in {{<<code[i], i>> :
                        i \in {j \in DOMAIN bit_lengths : bit_lengths[j] > 0}}} })

\* HuffmanTree::new
HuffmanTree_new(bit_lengths) ==
    lut_of(bit_lengths,
           final_codes(bit_lengths,
                       next_code(bl_count(bit_lengths),
                                 [l \in 0..MAX_HUFFMAN_BITS |-> 0], 0, 1)))

\* HuffmanTree::fixed
fixed ==
    HuffmanTree_new([i \in 1..288 |->
        IF i - 1 <= 143 THEN 8 ELSE IF i - 1 <= 255 THEN 9
        ELSE IF i - 1 <= 279 THEN 7 ELSE 8])

\* HuffmanTree::fixed_dist
fixed_dist == HuffmanTree_new([i \in 1..31 |-> 5])

\* HuffmanTree::default (what mem::take leaves behind)
HuffmanTree_default == <<>>

\* HuffmanTree::decode without the comparison of the lengths: a variant
tree_decode_any_len(tree, code, len) ==
    IF code \in DOMAIN tree THEN <<tree[code].symbol>> ELSE <<>>

\* HuffmanTree::decode: <<>> is None, <<symbol>> is Some(symbol)
tree_decode(tree, code, len) ==
    IF code \in DOMAIN tree /\ tree[code].len = len
    THEN <<tree[code].symbol>> ELSE <<>>

\* Deflator::decode (scry/src/decompress.rs): one symbol, bit by bit
RECURSIVE decode_loop(_, _, _, _)
decode_loop(r, tree, byte, len) ==
    The({ IF x.err # NoErr THEN [x EXCEPT !.v = 0]
          ELSE The({ IF hit # <<>> THEN [r |-> x.r, v |-> hit[1], err |-> NoErr]
                     ELSE IF len + 1 > MAX_HUFFMAN_BITS
                          THEN [r |-> x.r, v |-> ((byte * 2) % U16) + x.v,
                                err |-> "InvalidHuffmanCode"]
                     ELSE decode_loop(x.r, tree, ((byte * 2) % U16) + x.v, len + 1)
                     : hit \in {tree_decode(tree, ((byte * 2) % U16) + x.v,
                                            len + 1)} })
          : x \in {read_bit(r)} })

\* Deflator::decode accumulating the bits least significant first
\* (byte |= bit << len): a variant
RECURSIVE decode_loop_lsb_first(_, _, _, _)
decode_loop_lsb_first(r, tree, byte, len) ==
    The({ IF x.err # NoErr THEN [x EXCEPT !.v = 0]
          ELSE The({ IF hit # <<>> THEN [r |-> x.r, v |-> hit[1], err |-> NoErr]
                     ELSE IF len + 1 > MAX_HUFFMAN_BITS
                          THEN [r |-> x.r, v |-> byte + x.v * Pow2(len),
                                err |-> "InvalidHuffmanCode"]
                     ELSE decode_loop_lsb_first(x.r, tree,
                                                byte + x.v * Pow2(len), len + 1)
                     : hit \in {tree_decode(tree, byte + x.v * Pow2(len),
                                            len + 1)} })
          : x \in {read_bit(r)} })

decode_lsb_first(r, tree) == decode_loop_lsb_first(r, tree, 0, 0)

\* Deflator::decode without the comparison of len with MAX_HUFFMAN_BITS:
\* a variant
RECURSIVE decode_loop_unchecked(_, _, _, _)
decode_loop_unchecked(r, tree, byte, len) ==
    The({ IF x.err # NoErr THEN [x EXCEPT !.v = 0]
          ELSE The({ IF hit # <<>> THEN [r |-> x.r, v |-> hit[1], err |-> NoErr]
                     ELSE decode_loop_unchecked(x.r, tree,
                                                ((byte * 2) % U16) + x.v, len + 1)
                     : hit \in {tree_decode(tree, ((byte * 2) % U16) + x.v,
                                            len + 1)} })
          : x \in {read_bit(r)} })

decode_unchecked(r, tree) == decode_loop_unchecked(r, tree, 0, 0)

decode(r, tree) == decode_loop(r, tree, 0, 0)

\* ------------------------------------------------------------------------
\* read_header (cornifer/src/header.rs).  A read that follows a failed one
\* is never made by the code; here it is made on the reader the failure
\* left and its result is not used, the first error being returned.
\* ------------------------------------------------------------------------

RECURSIVE skip_bytes(_, _)
skip_bytes(r, n) ==
    IF n = 0 THEN [r |-> r, v |-> 0, err |-> NoErr]
    ELSE The({ IF x.err # NoErr THEN x ELSE skip_bytes(x.r, n - 1)
               : x \in {read_u8(r)} })

\* if fextra == 1: the length and the discarded extra data
read_extra(r, fextra) ==
    IF fextra # 1 THEN [r |-> r, v |-> 0, err |-> NoErr]
    ELSE The({ IF xlen.err # NoErr THEN xlen ELSE skip_bytes(xlen.r, xlen.v)
               : xlen \in {read_u16_le(r)} })

\* a name or comment that is present when its flag is 1
read_optional_string(x, flag) ==
    IF x.err # NoErr \/ flag # 1 THEN x ELSE read_null_terminated_string(x.r)

\* the comparison with the stored header CRC when end_crc comes after the
\* read of the stored value: a variant
check_hcrc_after_read(r, fhcrc) ==
    IF fhcrc # 1 THEN [r |-> end_crc(r).r, err |-> NoErr]
    ELSE The({ IF hcrc.err # NoErr THEN [r |-> hcrc.r, err |-> hcrc.err]
               ELSE The({ IF hcrc.v # hcrc_actual.v[1][2]
                          THEN [r |-> hcrc_actual.r, err |-> "InvalidHeaderCRC"]
                          ELSE [r |-> hcrc_actual.r, err |-> NoErr]
                          : hcrc_actual \in {end_crc(hcrc.r)} })
               : hcrc \in {read_u16_le(r)} })

\* end_crc and the comparison with the stored header CRC
check_hcrc(r, fhcrc) ==
    The({ IF fhcrc # 1 THEN [r |-> hcrc_actual.r, err |-> NoErr]
          ELSE The({ IF hcrc.err # NoErr THEN [r |-> hcrc.r, err |-> hcrc.err]
                     ELSE IF hcrc.v # hcrc_actual.v[1][2]
                          THEN [r |-> hcrc.r, err |-> "InvalidHeaderCRC"]
                     ELSE [r |-> hcrc.r, err |-> NoErr]
                     : hcrc \in {read_u16_le(hcrc_actual.r)} })
          : hcrc_actual \in {end_crc(r)} })

\* the optional fields after the OS byte, then the header CRC check
read_header_tail(r, flg) ==
    The({ IF comment.err # NoErr THEN [r |-> comment.r, err |-> comment.err]
          ELSE check_hcrc(comment.r, BitAt(flg, 1))
          : comment \in {read_optional_string(
                           read_optional_string(read_extra(r, BitAt(flg, 2)),
                                                BitAt(flg, 3)),
                           BitAt(flg, 4))} })

\* the fixed fields from CM to OS, after the two magic bytes
read_header_fixed(r) ==
    The({ IF cm.err # NoErr THEN [r |-> cm.r, err |-> cm.err]
          ELSE IF cm.v # 8 THEN [r |-> cm.r, err |-> "InvalidCompressionMethod"]
          ELSE The({ IF flg.err # NoErr THEN [r |-> flg.r, err |-> flg.err]
          ELSE The({ IF mtime.err # NoErr THEN [r |-> mtime.r, err |-> mtime.err]
          ELSE The({ IF xfl.err # NoErr THEN [r |-> xfl.r, err |-> xfl.err]
          ELSE The({ IF os.err # NoErr THEN [r |-> os.r, err |-> os.err]
                     ELSE read_header_tail(os.r, flg.v)
                     : os \in {read_u8(xfl.r)} })
                     : xfl \in {read_u8(mtime.r)} })
                     : mtime \in {read_u32_le(flg.r)} })
                     : flg \in {read_u8(cm.r)} })
          : cm \in {read_u8(r)} })

read_header(sr) ==
    The({ IF id1.err # NoErr
          THEN [r |-> id1.r,
                err |-> IF id1.err = "EOF" THEN "ExpectedEOF" ELSE id1.err]
          ELSE The({ IF id2.err # NoErr THEN [r |-> id2.r, err |-> id2.err]
                     ELSE IF id1.v # 31 \/ id2.v # 139
                          THEN [r |-> id2.r, err |-> "NotGZIPHeader"]
                     ELSE read_header_fixed(id2.r)
                     : id2 \in {read_u8(id1.r)} })
          : id1 \in {read_u8(begin_crc(sr))} })

\* ------------------------------------------------------------------------
\* Checkpointer (scry/src/checkpoint.rs).  rows is the HuffmanBlock table,
\* a row's id being its index; a NULL column is <<>>, a value v is <<v>>.
\* calls is the record of the notifications received and of the bytes the
\* decoder wrote to the caller's buffer, in the order they happened.
\* ------------------------------------------------------------------------

dist_in_bits(byte1, bit1, byte2, bit2) == ((byte2 - byte1) * 8) + (bit2 - bit1)

\* format!("{crc32:x}"): lowercase hex digits, no leading zeros
RECURSIVE hex_digits(_)
hex_digits(n) ==
    IF n < 16 THEN <<n>> ELSE Append(hex_digits(n \div 16), n % 16)

format_hex(v) ==
    IF v[1] = 0 THEN hex_digits(v[2])
    ELSE hex_digits(v[1])
           \o [i \in 1..4 |-> (v[2] \div Pow2(4 * (4 - i))) % 16]

\* Checkpointer::init_memory
Checkpointer_init ==
    [rows |-> <<>>, emit_block_type |-> "NoCompression", emit_byte |-> 0,
     emit_bit |-> 0, to_byte |-> 0, current_block_id |-> 0]

set_block_type(cp, block_type) == [cp EXCEPT !.emit_block_type = block_type]

\* on_block_start without the byte adjustment: a variant that records the
\* reader's byte position as it is
on_block_start_unadjusted(cp, curr_byte, bit, to_byte) ==
    [cp EXCEPT !.emit_byte = curr_byte,
               !.emit_bit = bit,
               !.to_byte = to_byte]

on_block_start(cp, curr_byte, bit, to_byte) ==
    [cp EXCEPT !.emit_byte = IF bit = 0 THEN curr_byte ELSE curr_byte - 1,
               !.emit_bit = bit,
               !.to_byte = to_byte]

block_type_text(bt) ==
    CASE bt = "NoCompression" -> "nocompression"
      [] bt = "FixedHuffman" -> "fixed"
      [] bt = "DynamicHuffman" -> "dynamic"

\* on_block_data_start without the byte adjustment of curr_byte: a variant
on_block_data_start_unadjusted(cp, curr_byte, bit, data) ==
    LET block_header_size_bits ==
            dist_in_bits(cp.emit_byte, cp.emit_bit, curr_byte, bit)
        row == [from_byte |-> cp.emit_byte, from_bit |-> cp.emit_bit,
                to_byte |-> cp.to_byte,
                block_type |-> block_type_text(cp.emit_block_type),
                header_len_bits |-> <<block_header_size_bits>>,
                data |-> data,
                crc32 |-> <<>>, len |-> <<>>, block_len_bits |-> <<>>]
    IN  [cp EXCEPT !.rows = Append(cp.rows, row),
                   !.current_block_id = Len(cp.rows) + 1]

on_block_data_start(cp, curr_byte, bit, data) ==
    LET adj == IF bit = 0 THEN curr_byte ELSE curr_byte - 1
        block_header_size_bits == dist_in_bits(cp.emit_byte, cp.emit_bit, adj, bit)
        row == [from_byte |-> cp.emit_byte, from_bit |-> cp.emit_bit,
                to_byte |-> cp.to_byte,
                block_type |-> block_type_text(cp.emit_block_type),
                header_len_bits |-> <<block_header_size_bits>>,
                data |-> data,
                crc32 |-> <<>>, len |-> <<>>, block_len_bits |-> <<>>]
    IN  [cp EXCEPT !.rows = Append(cp.rows, row),
                   !.current_block_id = Len(cp.rows) + 1]

on_block_end(cp, curr_byte, bit, to_byte, crc) ==
    LET adj == IF bit = 0 THEN curr_byte ELSE curr_byte - 1
        rowid == cp.current_block_id
        entire_block_size_bits == dist_in_bits(cp.emit_byte, cp.emit_bit, adj, bit)
        uncompressed_block_size == to_byte - cp.to_byte
    IN  IF rowid \in DOMAIN cp.rows
        THEN [cp EXCEPT !.rows[rowid].crc32 = <<format_hex(crc)>>,
                        !.rows[rowid].len = <<uncompressed_block_size>>,
                        !.rows[rowid].block_len_bits = <<entire_block_size_bits>>]
        ELSE cp

\* ------------------------------------------------------------------------
\* Deflator (scry/src/decompress.rs).  A deflator d is the record of its
\* fields buffer, state, in_final_block, reader, checkpointer, together with
\* calls (the history of what it told the checkpointer and wrote out).
\* A transition yields [d, out, err]: the deflator afterwards, the bytes
\* written to the caller's buffer and the error ("" for Ok).  On an error
\* the state field keeps its old value (the match never assigns it), the
\* other effects of the transition stay.
\* ------------------------------------------------------------------------

BASE_LENGTHS ==
    <<3, 4, 5, 6, 7, 8, 9, 10, 11, 13, 15, 17, 19, 23, 27, 31, 35, 43, 51, 59,
      67, 83, 99, 115, 131, 163, 195, 227, 258>>

LENGTH_EXTRA_BITS ==
    <<0, 0, 0, 0, 0, 0, 0, 0, 1, 1, 1, 1, 2, 2, 2, 2, 3, 3, 3, 3, 4, 4, 4, 4,
      5, 5, 5, 5, 0>>

BASE_DISTS ==
    <<1, 2, 3, 4, 5, 7, 9, 13, 17, 25, 33, 49, 65, 97, 129, 193, 257, 385, 513,
      769, 1025, 1537, 2049, 3073, 4097, 6145, 8193, 12289, 16385, 24577>>

DIST_EXTRA_BITS ==
    <<0, 0, 0, 0, 1, 1, 2, 2, 3, 3, 4, 4, 5, 5, 6, 6, 7, 7, 8, 8, 9, 9, 10, 10,
      11, 11, 12, 12, 13, 13>>

CODE_LENGTH_ORDER ==
    <<16, 17, 18, 0, 8, 7, 9, 6, 10, 5, 11, 4, 12, 3, 13, 2, 14, 1, 15>>

MAX_SYMBOL_CODES == 286
MAX_DISTANCE_CODES == 30

\* DeflatorState: a tag and the payload of the variants that have one
St(tag) ==
    [tag |-> tag, len |-> 0, current |-> 0,
     symbol_tree |-> HuffmanTree_default, distance_tree |-> HuffmanTree_default]

StNonCompressedBlock(len) == [St("NonCompressedBlock") EXCEPT !.len = len]

StDecodeBlock(symbol_tree, distance_tree) ==
    [St("DecodeBlock") EXCEPT !.symbol_tree = symbol_tree,
                              !.distance_tree = distance_tree]

StWriteLookback(current, len, symbol_tree, distance_tree) ==
    [St("WriteLookback") EXCEPT !.current = current, !.len = len,
                                !.symbol_tree = symbol_tree,
                                !.distance_tree = distance_tree]

\* Deflator::new
Deflator_new(reader, checkpointer, start) ==
    [buffer |-> CircularBuffer_new(WindowCapacity, start),
     state |-> St("GZIPHeader"),
     in_final_block |-> FALSE,
     reader |-> reader,
     checkpointer |-> checkpointer,
     calls |-> <<>>]

Ok(d, out) == [d |-> d, out |-> out, err |-> NoErr]
Err(d, e) == [d |-> d, out |-> <<>>, err |-> e]

Call(op, args) == [op |-> op, args |-> args]

\* Deflator::read_block_header: v is <<is_final, block_type>>
read_block_header(r) ==
    The({ IF is_final.err # NoErr THEN is_final
          ELSE The({ IF block_bits.err # NoErr THEN block_bits
                     ELSE IF block_bits.v = 3
                          THEN [r |-> block_bits.r, v |-> <<>>,
                                err |-> "InvalidBlockType"]
                     ELSE [r |-> block_bits.r,
                           v |-> <<is_final.v = 1,
                                   CASE block_bits.v = 0 -> "NoCompression"
                                     [] block_bits.v = 1 -> "FixedHuffman"
                                     [] block_bits.v = 2 -> "DynamicHuffman">>,
                           err |-> NoErr]
                     : block_bits \in {read_n_bits_le(is_final.r, 2)} })
          : is_final \in {read_bit(r)} })

\* Deflator::on_block_data_start
Deflator_on_block_data_start(d) ==
    [d EXCEPT
       !.checkpointer =
           on_block_data_start(d.checkpointer, d.reader.current_byte,
                               d.reader.current_bit,
                               get_normalized_buffer(d.buffer)),
       !.calls = Append(d.calls,
           Call("on_block_data_start",
                <<d.reader.current_byte, d.reader.current_bit,
                  get_normalized_buffer(d.buffer)>>))]

\* arm GZIPHeader that returns every error of read_header, the end of
\* input before a member included: a variant
arm_GZIPHeader_strict(d) ==
    The({ IF h.err = NoErr
          THEN Ok([d EXCEPT !.reader = h.r, !.state = St("BlockHeader")], <<>>)
          ELSE Err([d EXCEPT !.reader = h.r], h.err)
          : h \in {read_header(d.reader)} })

\* state_transition, arm GZIPHeader
arm_GZIPHeader(d) ==
    The({ IF h.err = NoErr
          THEN Ok([d EXCEPT !.reader = h.r, !.state = St("BlockHeader")], <<>>)
          ELSE IF h.err = "ExpectedEOF"
          THEN Ok([d EXCEPT !.reader = h.r, !.state = St("Done")], <<>>)
          ELSE Err([d EXCEPT !.reader = h.r], h.err)
          : h \in {read_header(d.reader)} })

\* arm BlockHeader that goes to DecodeBlock for a fixed block without
\* calling on_block_data_start: a variant
block_header_read_silent(d1, bh) ==
    IF bh.err # NoErr THEN Err([d1 EXCEPT !.reader = bh.r], bh.err)
    ELSE The({ CASE bh.v[2] = "NoCompression" ->
                      Ok([d3 EXCEPT !.state = St("PrepareNonCompressedBlock")], <<>>)
                 [] bh.v[2] = "DynamicHuffman" ->
                      Ok([d3 EXCEPT !.state = St("PrepareDynamicBlock")], <<>>)
                 [] bh.v[2] = "FixedHuffman" ->
                      Ok([d3 EXCEPT !.state = StDecodeBlock(fixed, fixed_dist)], <<>>)
               : d3 \in {[d1 EXCEPT
                            !.reader = bh.r,
                            !.in_final_block = bh.v[1],
                            !.checkpointer = set_block_type(d1.checkpointer, bh.v[2]),
                            !.calls = Append(d1.calls,
                                             Call("set_block_type", <<bh.v[2]>>))]} })

\* arm BlockHeader after on_block_start: d1 is the deflator then, bh the
\* result of read_block_header
block_header_read(d1, bh) ==
    IF bh.err # NoErr THEN Err([d1 EXCEPT !.reader = bh.r], bh.err)
    ELSE The({ CASE bh.v[2] = "NoCompression" ->
                      Ok([d3 EXCEPT !.state = St("PrepareNonCompressedBlock")], <<>>)
                 [] bh.v[2] = "DynamicHuffman" ->
                      Ok([d3 EXCEPT !.state = St("PrepareDynamicBlock")], <<>>)
                 [] bh.v[2] = "FixedHuffman" ->
                      Ok([Deflator_on_block_data_start(d3) EXCEPT
                            !.state = StDecodeBlock(fixed, fixed_dist)], <<>>)
               : d3 \in {[d1 EXCEPT
                            !.reader = bh.r,
                            !.in_final_block = bh.v[1],
                            !.checkpointer = set_block_type(d1.checkpointer, bh.v[2]),
                            !.calls = Append(d1.calls,
                                             Call("set_block_type", <<bh.v[2]>>))]} })

\* state_transition, arm BlockHeader
arm_BlockHeader(d) ==
    block_header_read(
        [d EXCEPT
           !.checkpointer =
               on_block_start(d.checkpointer, d.reader.current_byte,
                              d.reader.current_bit, get_bytes_written(d.buffer)),
           !.calls = Append(d.calls,
               Call("on_block_start",
                    <<d.reader.current_byte, d.reader.current_bit,
                      get_bytes_written(d.buffer)>>))],
        read_block_header(d.reader))

\* state_transition, arm PrepareNonCompressedBlock
\* arm PrepareNonCompressedBlock that does not compare NLEN with LEN: a
\* variant
arm_PrepareNonCompressedBlock_unchecked(d) ==
    The({ IF len.err # NoErr THEN Err([d EXCEPT !.reader = len.r], len.err)
          ELSE The({ IF nlen.err # NoErr
                     THEN Err([d EXCEPT !.reader = nlen.r], nlen.err)
                     ELSE Ok([Deflator_on_block_data_start(
                                  [d EXCEPT !.reader = nlen.r])
                                EXCEPT !.state = StNonCompressedBlock(len.v)], <<>>)
                     : nlen \in {read_u16_le(len.r)} })
          : len \in {read_u16_le(discard_until_next_byte(d.reader))} })

arm_PrepareNonCompressedBlock(d) ==
    The({ IF len.err # NoErr THEN Err([d EXCEPT !.reader = len.r], len.err)
          ELSE The({ IF nlen.err # NoErr
                     THEN Err([d EXCEPT !.reader = nlen.r], nlen.err)
                     ELSE IF nlen.v # (U16 - 1) - len.v
                     THEN Err([d EXCEPT !.reader = nlen.r],
                              "InvalidNonCompressedBlockHeader")
                     ELSE Ok([Deflator_on_block_data_start(
                                  [d EXCEPT !.reader = nlen.r])
                                EXCEPT !.state = StNonCompressedBlock(len.v)], <<>>)
                     : nlen \in {read_u16_le(len.r)} })
          : len \in {read_u16_le(discard_until_next_byte(d.reader))} })

\* the copy loop of arm NonCompressedBlock: num_bytes bytes from input to
\* the window and the caller's buffer
RECURSIVE copy_stored(_, _, _)
copy_stored(d, n, out) ==
    IF n = 0 THEN Ok(d, out)
    ELSE The({ IF byte.err # NoErr
               THEN Err([d EXCEPT !.reader = byte.r], byte.err)
               ELSE copy_stored(
                      [d EXCEPT !.reader = byte.r,
                                !.buffer = push(d.buffer, byte.v),
                                !.calls = Append(d.calls, Call("out", <<byte.v>>))],
                      n - 1, Append(out, byte.v))
               : byte \in {read_u8(d.reader)} })

\* state_transition, arm NonCompressedBlock: len is buf.len() as u16
arm_NonCompressedBlock(d, buf_len) ==
    The({ The({ IF x.err # NoErr THEN x
                ELSE IF d.state.len - num_bytes = 0
                     THEN Ok([x.d EXCEPT !.state = St("CheckIfFinalBlock")], x.out)
                ELSE Ok([x.d EXCEPT !.state =
                            StNonCompressedBlock(d.state.len - num_bytes)], x.out)
                : x \in {copy_stored(d, num_bytes, <<>>)} })
          : num_bytes \in {Min(d.state.len, buf_len % U16)} })

\* the loop of arm PrepareDynamicBlock that reads the code-length code
\* lengths in CODE_LENGTH_ORDER
RECURSIVE read_code_lengths(_, _, _, _)
read_code_lengths(r, code_lengths, i, num_code_lengths) ==
    IF i >= num_code_lengths THEN [r |-> r, v |-> code_lengths, err |-> NoErr]
    ELSE The({ IF x.err # NoErr THEN [x EXCEPT !.v = code_lengths]
               ELSE read_code_lengths(x.r,
                      [code_lengths EXCEPT ![CODE_LENGTH_ORDER[i + 1] + 1] = x.v],
                      i + 1, num_code_lengths)
               : x \in {read_n_bits_le(r, 3)} })

\* the inner for loop of a repeat instruction: times entries from index on
\* are set to to_copy; an index past the end of combined_cls is an
\* out-of-bounds panic, after the entries before the end were written
repeat_copy(cls, index, to_copy, times) ==
    [v |-> [i \in 1..Len(cls) |->
              IF i > index /\ i <= index + times THEN to_copy ELSE cls[i]],
     index |-> Min(index + times, Len(cls)),
     err |-> IF index + times > Len(cls) THEN "panic" ELSE NoErr]

\* a repeat instruction (symbol 16, 17 or 18) of the while loop: its extra
\* bits and the copies; v is <<combined_cls, index>>
repeat_instruction(r, cls, index, symbol) ==
    IF symbol = 16 /\ index = 0
    THEN [r |-> r, v |-> <<cls, index>>, err |-> "InvalidDynamicBlockCodeLength"]
    ELSE The({ IF extra.err # NoErr
               THEN [r |-> extra.r, v |-> <<cls, index>>, err |-> extra.err]
               ELSE The({ [r |-> extra.r, v |-> <<rep.v, rep.index>>, err |-> rep.err]
                          : rep \in {repeat_copy(cls, index,
                                       IF symbol = 16 THEN cls[index] ELSE 0,
                                       IF symbol = 16 THEN 3 + extra.v
                                       ELSE IF symbol = 17 THEN 3 + extra.v
                                       ELSE IF symbol = 18 THEN 11 + extra.v
                                       ELSE 0)} })
               : extra \in {read_n_bits_le(r,
                              IF symbol = 16 THEN 2 ELSE IF symbol = 17 THEN 3
                              ELSE IF symbol = 18 THEN 7 ELSE 0)} })

\* the while loop of arm PrepareDynamicBlock filling combined_cls; the
\* decoded symbol is used as a u8
RECURSIVE read_combined_cls(_, _, _, _, _)
read_combined_cls(r, cl_tree, cls, index, total) ==
    IF index >= total THEN [r |-> r, v |-> cls, err |-> NoErr]
    ELSE
    The({ IF sym.err # NoErr THEN [r |-> sym.r, v |-> cls, err |-> sym.err]
          ELSE IF sym.v % 256 < 16
          THEN IF index >= Len(cls) THEN [r |-> sym.r, v |-> cls, err |-> "panic"]
               ELSE read_combined_cls(sym.r, cl_tree,
                      [cls EXCEPT ![index + 1] = sym.v % 256], index + 1, total)
          ELSE The({ IF rep.err # NoErr THEN [r |-> rep.r, v |-> cls, err |-> rep.err]
                     ELSE read_combined_cls(rep.r, cl_tree, rep.v[1], rep.v[2], total)
                     : rep \in {repeat_instruction(sym.r, cls, index, sym.v % 256)} })
          : sym \in {decode(r, cl_tree)} })

\* arm PrepareDynamicBlock once the three counts are read: the code length
\* tree, combined_cls and the two trees built from it
prepare_trees(d, r, num_literals, num_dists, num_code_lengths) ==
    The({ IF cl.err # NoErr THEN Err([d EXCEPT !.reader = cl.r], cl.err)
          ELSE The({ IF cc.err # NoErr THEN Err([d EXCEPT !.reader = cc.r], cc.err)
                     ELSE Ok([Deflator_on_block_data_start(
                                  [d EXCEPT !.reader = cc.r])
                                EXCEPT !.state = StDecodeBlock(
                                  HuffmanTree_new(SubSeq(cc.v, 1, num_literals)),
                                  HuffmanTree_new(SubSeq(cc.v, num_literals + 1,
                                                         Len(cc.v))))], <<>>)
                     : cc \in {read_combined_cls(cl.r, HuffmanTree_new(cl.v),
                                 [i \in 1..(MAX_DISTANCE_CODES + MAX_SYMBOL_CODES)
                                    |-> 0],
                                 0, num_literals + num_dists)} })
          : cl \in {read_code_lengths(r, [i \in 1..19 |-> 0], 0,
                                      num_code_lengths)} })

\* state_transition, arm PrepareDynamicBlock
arm_PrepareDynamicBlock(d) ==
    The({ IF hlit.err # NoErr THEN Err([d EXCEPT !.reader = hlit.r], hlit.err)
          ELSE The({ IF hdist.err # NoErr
                     THEN Err([d EXCEPT !.reader = hdist.r], hdist.err)
          ELSE The({ IF hclen.err # NoErr
                     THEN Err([d EXCEPT !.reader = hclen.r], hclen.err)
                     ELSE prepare_trees(d, hclen.r, hlit.v + 257, hdist.v + 1,
                                        hclen.v + 4)
                     : hclen \in {read_n_bits_le(hdist.r, 4)} })
                     : hdist \in {read_n_bits_le(hlit.r, 5)} })
          : hlit \in {read_n_bits_le(d.reader, 5)} })

\* arm DecodeBlock once length and distance are known: the copy inside the
\* window and the move to WriteLookback
lookback_push(d, r, dist, len, out) ==
    The({ IF pushed.err # NoErr
          THEN Err([d EXCEPT !.reader = r, !.buffer = pushed.cb], pushed.err)
          ELSE Ok([d EXCEPT !.reader = r, !.buffer = pushed.cb,
                            !.state = StWriteLookback(0, len, d.state.symbol_tree,
                                                      d.state.distance_tree)], out)
          : pushed \in {push_from_buffer(d.buffer, dist, len)} })

\* arm DecodeBlock after the length of a back-reference is known: the
\* distance symbol and its extra bits; a distance symbol past the end of
\* BASE_DISTS is an out-of-bounds panic
decode_distance(d, r, len, out) ==
    The({ IF dist_symbol.err # NoErr
          THEN Err([d EXCEPT !.reader = dist_symbol.r], dist_symbol.err)
          ELSE IF dist_symbol.v >= Len(BASE_DISTS)
          THEN Err([d EXCEPT !.reader = dist_symbol.r], "panic")
          ELSE The({ IF dist_extra.err # NoErr
                     THEN Err([d EXCEPT !.reader = dist_extra.r], dist_extra.err)
                     ELSE lookback_push(d, dist_extra.r,
                            BASE_DISTS[dist_symbol.v + 1] + dist_extra.v, len, out)
                     : dist_extra \in {read_n_bits_le(dist_symbol.r,
                                         DIST_EXTRA_BITS[dist_symbol.v + 1])} })
          : dist_symbol \in {decode(r, d.state.distance_tree)} })

\* arm DecodeBlock after a length symbol (257 and up) was decoded; an index
\* past the end of BASE_LENGTHS is an out-of-bounds panic
decode_lookback(d, symbol, out) ==
    IF symbol - 257 >= Len(BASE_LENGTHS) THEN Err(d, "panic")
    ELSE The({ IF len_extra.err # NoErr
               THEN Err([d EXCEPT !.reader = len_extra.r], len_extra.err)
               ELSE decode_distance(d, len_extra.r,
                      BASE_LENGTHS[symbol - 257 + 1] + len_extra.v, out)
               : len_extra \in {read_n_bits_le(d.reader,
                                  LENGTH_EXTRA_BITS[symbol - 257 + 1])} })

\* arm DecodeBlock at symbol 256: on_block_end with the bytes written and
\* the block digest, which block_crc32 replaces by a fresh one
end_of_block(d, out) ==
    The({ Ok([d EXCEPT
                !.buffer = crc.cb,
                !.checkpointer =
                    on_block_end(d.checkpointer, d.reader.current_byte,
                                 d.reader.current_bit,
                                 get_bytes_written(d.buffer), crc.v),
                !.calls = Append(d.calls,
                    Call("on_block_end",
                         <<d.reader.current_byte, d.reader.current_bit,
                           get_bytes_written(d.buffer), crc.v>>)),
                !.state = St("CheckIfFinalBlock")], out)
          : crc \in {block_crc32(d.buffer)} })

\* the loop of arm DecodeBlock; out holds the i bytes written so far
RECURSIVE decode_block_loop(_, _, _)
decode_block_loop(d, buf_len, out) ==
    IF Len(out) >= buf_len
    THEN Ok([d EXCEPT !.state =
                StDecodeBlock(d.state.symbol_tree, d.state.distance_tree)], out)
    ELSE
    The({ IF sym.err # NoErr THEN Err([d EXCEPT !.reader = sym.r], sym.err)
          ELSE IF sym.v < 256
          THEN decode_block_loop(
                 [d EXCEPT !.reader = sym.r,
                           !.buffer = push(d.buffer, sym.v),
                           !.calls = Append(d.calls, Call("out", <<sym.v>>))],
                 buf_len, Append(out, sym.v))
          ELSE IF sym.v = 256
          THEN end_of_block([d EXCEPT !.reader = sym.r], out)
          ELSE decode_lookback([d EXCEPT !.reader = sym.r], sym.v, out)
          : sym \in {decode(d.reader, d.state.symbol_tree)} })

\* state_transition, arm DecodeBlock
arm_DecodeBlock(d, buf_len) == decode_block_loop(d, buf_len, <<>>)

\* arm WriteLookback that hands to DecodeBlock the trees mem::take leaves
\* behind: a variant
write_lookback_taken(d, num_bytes, out) ==
    The({ IF d.state.current + num_bytes = d.state.len
          THEN Ok([d1 EXCEPT !.state =
                      StDecodeBlock(HuffmanTree_default, HuffmanTree_default)], out)
          ELSE Ok([d1 EXCEPT !.state =
                      StWriteLookback(d.state.current + num_bytes, d.state.len,
                                      d.state.symbol_tree, d.state.distance_tree)],
                  out)
          : d1 \in {[d EXCEPT !.calls =
                       d.calls \o [i \in 1..num_bytes |-> Call("out", <<out[i]>>)]]} })

\* arm WriteLookback once the bytes to write are known
write_lookback(d, num_bytes, out) ==
    The({ IF d.state.current + num_bytes = d.state.len
          THEN Ok([d1 EXCEPT !.state =
                      StDecodeBlock(d.state.symbol_tree, d.state.distance_tree)],
                  out)
          ELSE Ok([d1 EXCEPT !.state =
                      StWriteLookback(d.state.current + num_bytes, d.state.len,
                                      d.state.symbol_tree, d.state.distance_tree)],
                  out)
          : d1 \in {[d EXCEPT !.calls =
                       d.calls \o [i \in 1..num_bytes |-> Call("out", <<out[i]>>)]]} })

\* arm WriteLookback that takes its bytes from the start of head whatever
\* current is: a variant
arm_WriteLookback_restart(d, buf_len) ==
    The({ write_lookback(d, num_bytes,
            The({ [i \in 1..num_bytes |-> head[i]]
                  : head \in {window_head(d.buffer, d.state.len)} }))
          : num_bytes \in {Min(d.state.len - d.state.current, buf_len % U16)} })

\* state_transition, arm WriteLookback: num_bytes is
\* min(len - current, buf_len as u16), the bytes are head[current..]
arm_WriteLookback(d, buf_len) ==
    The({ write_lookback(d, num_bytes,
            The({ [i \in 1..num_bytes |-> head[d.state.current + i]]
                  : head \in {window_head(d.buffer, d.state.len)} }))
          : num_bytes \in {Min(d.state.len - d.state.current, buf_len % U16)} })

\* arm CheckIfFinalBlock that always goes on to the footer: a variant
arm_CheckIfFinalBlock_footer(d) == Ok([d EXCEPT !.state = St("GZIPFooter")], <<>>)

\* state_transition, arm CheckIfFinalBlock
arm_CheckIfFinalBlock(d) ==
    IF d.in_final_block THEN Ok([d EXCEPT !.state = St("GZIPFooter")], <<>>)
    ELSE Ok([d EXCEPT !.state = St("BlockHeader")], <<>>)

\* arm GZIPFooter after the CRC matched: d holds the reader past the CRC
\* and the window with a fresh member digest
footer_isize(d) ==
    The({ The({ IF isize.err # NoErr
                THEN Err([d EXCEPT !.reader = isize.r,
                                   !.buffer = isize_expected.cb], isize.err)
                ELSE IF isize_expected.v # isize.v
                THEN Err([d EXCEPT !.reader = isize.r,
                                   !.buffer = isize_expected.cb], "InvalidGZIPIsize")
                ELSE Ok([d EXCEPT !.reader = isize.r,
                                  !.buffer = isize_expected.cb,
                                  !.state = St("GZIPHeader")], <<>>)
                : isize \in {read_u32_le(d.reader)} })
          : isize_expected \in {counter(d.buffer)} })

\* state_transition, arm GZIPFooter
arm_GZIPFooter(d) ==
    The({ The({ IF crc.err # NoErr
                THEN Err([d EXCEPT !.reader = crc.r,
                                   !.buffer = crc32_expected.cb], crc.err)
                ELSE IF crc32_expected.v # crc.v
                THEN Err([d EXCEPT !.reader = crc.r,
                                   !.buffer = crc32_expected.cb], "InvalidGZIPCRC")
                ELSE footer_isize([d EXCEPT !.reader = crc.r,
                                            !.buffer = crc32_expected.cb])
                : crc \in {read_u32_le(discard_until_next_byte(d.reader))} })
          : crc32_expected \in {crc32(d.buffer)} })

\* arm Done that starts over at a member header: a variant
arm_Done_restart(d) == Ok([d EXCEPT !.state = St("GZIPHeader")], <<>>)

\* state_transition, arm Done
arm_Done(d) == Ok([d EXCEPT !.state = St("Done")], <<>>)

\* Deflator::state_transition
state_transition(d, buf_len) ==
    CASE d.state.tag = "GZIPHeader" -> arm_GZIPHeader(d)
      [] d.state.tag = "BlockHeader" -> arm_BlockHeader(d)
      [] d.state.tag = "PrepareNonCompressedBlock" -> arm_PrepareNonCompressedBlock(d)
      [] d.state.tag = "NonCompressedBlock" -> arm_NonCompressedBlock(d, buf_len)
      [] d.state.tag = "PrepareDynamicBlock" -> arm_PrepareDynamicBlock(d)
      [] d.state.tag = "DecodeBlock" -> arm_DecodeBlock(d, buf_len)
      [] d.state.tag = "WriteLookback" -> arm_WriteLookback(d, buf_len)
      [] d.state.tag = "CheckIfFinalBlock" -> arm_CheckIfFinalBlock(d)
      [] d.state.tag = "GZIPFooter" -> arm_GZIPFooter(d)
      [] d.state.tag = "Done" -> arm_Done(d)

\* a caller that reads one byte at a time (as Read::bytes does) until a read
\* fails or the deflator is Done: the notifications and writes, every byte
\* the reads returned and the error of the last read
RECURSIVE read_bytes(_, _)
read_bytes(d, out) ==
    IF d.state.tag = "Done" THEN [calls |-> d.calls, out |-> out, err |-> NoErr]
    ELSE The({ IF x.err # NoErr
               THEN [calls |-> x.d.calls, out |-> out, err |-> x.err]
               ELSE read_bytes(x.d, out \o x.out)
               : x \in {state_transition(d, 1)} })

\* ------------------------------------------------------------------------
\* Input streams.  As the tests build their inputs with a GZIP encoder, a
\* stream is described by its members and their blocks and encoded here by
\* the rules of RFC 1951/1952.  A token is a literal byte or a (len, dist)
\* back-reference.  The encoder also yields, for every block, where its
\* header, body and end lie in the input and what the block produces.
\* ------------------------------------------------------------------------

Lit(b) == [len |-> 0, dist |-> 0, lit |-> b]
Ref(len, dist) == [len |-> len, dist |-> dist, lit |-> 0]

Blk(btype, toks) == [btype |-> btype, toks |-> toks]
Member(flg, blocks) == [flg |-> flg, blocks |-> blocks]

\* n bits of v, least significant first / most significant first
LsbBits(v, n) == [i \in 1..n |-> BitAt(v, i - 1)]
MsbBits(v, n) == [i \in 1..n |-> BitAt(v, n - i)]

RECURSIVE BytesToBits(_)
BytesToBits(bytes) ==
    IF bytes = <<>> THEN <<>> ELSE LsbBits(Head(bytes), 8) \o BytesToBits(Tail(bytes))

PadBits(bits) == [i \in 1..((8 - (Len(bits) % 8)) % 8) |-> 0]

BitsToBytes(bits) ==
    [k \in 1..(Len(bits) \div 8) |->
        bits[8*k - 7] + 2 * bits[8*k - 6] + 4 * bits[8*k - 5] + 8 * bits[8*k - 4]
        + 16 * bits[8*k - 3] + 32 * bits[8*k - 2] + 64 * bits[8*k - 1]
        + 128 * bits[8*k]]

U32LeBytes(v) == <<v[2] % 256, v[2] \div 256, v[1] % 256, v[1] \div 256>>

\* the fixed codes of RFC 1951 section 3.2.6
FixedTokBits(t) ==
    IF t.len = 0
    THEN IF t.lit <= 143 THEN MsbBits(48 + t.lit, 8) ELSE MsbBits(400 + (t.lit - 144), 9)
    ELSE MsbBits(t.len - 2, 7)
           \o (IF t.dist <= 4 THEN MsbBits(t.dist - 1, 5)
               ELSE IF t.dist <= 6 THEN MsbBits(4, 5) \o <<t.dist - 5>>
               ELSE MsbBits(5, 5) \o <<t.dist - 7>>)

FixedEob == <<0, 0, 0, 0, 0, 0, 0>>

\* A dynamic block over the alphabet: literal 97 (code 0), end of block
\* (100), lengths 3, 4, 5 (101, 110, 111), distance 1 (code 0).  Its header
\* uses the code-length symbols 1, 3, 16, 17 and 18.
DynHeaderBits ==
    LsbBits(3, 5) \o LsbBits(0, 5) \o LsbBits(14, 4)
    \o LsbBits(3, 3) \o LsbBits(2, 3) \o LsbBits(2, 3)
    \o [i \in 1..30 |-> 0]
    \o LsbBits(3, 3) \o [i \in 1..9 |-> 0] \o LsbBits(2, 3)
    \o <<1, 0>> \o LsbBits(86, 7)
    \o <<0, 0>>
    \o <<1, 0>> \o LsbBits(127, 7)
    \o <<0, 1>> \o LsbBits(7, 3)
    \o <<0, 1>> \o LsbBits(7, 3)
    \o <<1, 1, 0>>
    \o <<1, 1, 1>> \o LsbBits(0, 2)
    \o <<0, 0>>

DynTokBits(t) ==
    IF t.len = 0 THEN <<0>> ELSE MsbBits(t.len + 2, 3) \o <<0>>

DynEob == <<1, 0, 0>>

RECURSIVE ToksBits(_, _)
ToksBits(btype, toks) ==
    IF toks = <<>> THEN <<>>
    ELSE (IF btype = "FixedHuffman" THEN FixedTokBits(Head(toks))
          ELSE DynTokBits(Head(toks)))
         \o ToksBits(btype, Tail(toks))

\* what the tokens produce after the output so far
RECURSIVE Expand(_, _)
Expand(out, toks) ==
    IF Forced(out) /\ toks = <<>> THEN out
    ELSE LET t == Head(toks)
         IN  IF t.len = 0 THEN Expand(Append(out, t.lit), Tail(toks))
             ELSE Expand(Append(out, out[Len(out) - t.dist + 1]),
                         IF t.len = 1 THEN Tail(toks)
                         ELSE <<Ref(t.len - 1, t.dist)>> \o Tail(toks))

RECURSIVE LitBytes(_)
LitBytes(toks) ==
    IF toks = <<>> THEN <<>> ELSE <<Head(toks).lit>> \o LitBytes(Tail(toks))

\* the bits of a block from its header to the start of its data, when
\* before bits were written before it
BlockPrefix(before, blk, final) ==
    <<IF final THEN 1 ELSE 0>>
    \o (CASE blk.btype = "NoCompression" ->
               <<0, 0>> \o PadBits(before \o <<0, 0, 0>>)
               \o LsbBits(Len(blk.toks), 16)
               \o LsbBits(65535 - Len(blk.toks), 16)
          [] blk.btype = "FixedHuffman" -> <<1, 0>>
          [] blk.btype = "DynamicHuffman" -> <<0, 1>> \o DynHeaderBits)

\* the bits of a block's data, the end-of-block symbol included
BlockBody(blk) ==
    CASE blk.btype = "NoCompression" -> BytesToBits(LitBytes(blk.toks))
      [] blk.btype = "FixedHuffman" -> ToksBits(blk.btype, blk.toks) \o FixedEob
      [] blk.btype = "DynamicHuffman" -> ToksBits(blk.btype, blk.toks) \o DynEob

\* acc = [bits, facts, out]: the input bits so far, one fact per block so
\* far, the output so far
EncBlock(acc, blk, final) ==
    The({ [bits |-> acc.bits \o pre \o body,
           facts |-> Append(acc.facts,
                       [btype |-> blk.btype, final |-> final,
                        start |-> Len(acc.bits),
                        body |-> Len(acc.bits) + Len(pre),
                        end |-> Len(acc.bits) + Len(pre) + Len(body),
                        to_byte |-> Len(acc.out),
                        out |-> SubSeq(out1, Len(acc.out) + 1, Len(out1))]),
           out |-> out1]
          : pre \in {BlockPrefix(acc.bits, blk, final)},
            body \in {BlockBody(blk)},
            out1 \in {Expand(acc.out, blk.toks)} })

RECURSIVE EncBlocks(_, _)
EncBlocks(acc, blocks) ==
    IF Forced(acc) /\ blocks = <<>> THEN acc
    ELSE EncBlocks(EncBlock(acc, Head(blocks), Len(blocks) = 1), Tail(blocks))

\* the member header: FEXTRA carries one byte, FNAME is "n", FCOMMENT "c"
HeaderBytes(flg) ==
    LET fixed10 == <<31, 139, 8, flg, 0, 0, 0, 0, 0, 3>>
        body == fixed10
                \o (IF BitAt(flg, 2) = 1 THEN <<1, 0, 7>> ELSE <<>>)
                \o (IF BitAt(flg, 3) = 1 THEN <<110, 0>> ELSE <<>>)
                \o (IF BitAt(flg, 4) = 1 THEN <<99, 0>> ELSE <<>>)
    IN  body \o (IF BitAt(flg, 1) = 1
                 THEN LET c == Crc32Of(body)[2] IN <<c % 256, c \div 256>>
                 ELSE <<>>)

EncMember(acc, m) ==
    The({ The({ [a1 EXCEPT !.bits = a1.bits \o PadBits(a1.bits)
                               \o BytesToBits(U32LeBytes(Crc32Of(mout)))
                               \o BytesToBits(U32LeBytes(u32_of_nat(Len(mout))))]
                : mout \in {SubSeq(a1.out, Len(acc.out) + 1, Len(a1.out))} })
          : a1 \in {EncBlocks([acc EXCEPT !.bits =
                                 acc.bits \o BytesToBits(HeaderBytes(m.flg))],
                              m.blocks)} })

RECURSIVE EncMembers(_, _)
EncMembers(acc, members) ==
    IF Forced(acc) /\ members = <<>> THEN acc
    ELSE EncMembers(EncMember(acc, Head(members)), Tail(members))

\* a stream: its members, the number of bytes cut off its end (0 for a
\* whole stream) and the byte, counted from the end, that is damaged (0 for
\* none); the facts and out describe the whole, undamaged stream
Whole(members) == [members |-> members, cut |-> 0, flip |-> 0]
Cut(members, cut) == [members |-> members, cut |-> cut, flip |-> 0]
Flip(members, flip) == [members |-> members, cut |-> 0, flip |-> flip]

\* bytes with the flip-th byte from the end changed
Damaged(bytes, flip) ==
    IF flip = 0 THEN bytes
    ELSE [i \in DOMAIN bytes |->
             IF i = Len(bytes) - flip + 1 THEN (bytes[i] + 1) % 256 ELSE bytes[i]]

Encode(s) ==
    The({ [bytes |-> Damaged(SubSeq(BitsToBytes(a.bits), 1,
                                    (Len(a.bits) \div 8) - s.cut), s.flip),
           facts |-> a.facts, out |-> a.out]
          : a \in {EncMembers([bits |-> <<>>, facts |-> <<>>, out |-> <<>>],
                              s.members)} })

\* blocks that move the bit offset: an empty fixed block is 10 bits long, a
\* fixed block holding the literal 200 is 19 bits long
EmptyFixed == Blk("FixedHuffman", <<>>)
NineBit == Blk("FixedHuffman", <<Lit(200)>>)
OffsetChain == <<EmptyFixed, EmptyFixed, EmptyFixed, NineBit, EmptyFixed,
                 EmptyFixed, EmptyFixed, EmptyFixed>>

\* k blocks of the chain, then a stored block: the chain's blocks start at
\* bit offsets 0, 2, 4, 6, 1, 3, 5, 7 and the stored block at the offset
\* that follows
Chain(k) ==
    Whole(<<Member(0, SubSeq(OffsetChain, 1, k)
                      \o <<Blk("NoCompression", <<Lit(97)>>)>>)>>)

\* the inputs explored: the chains; the empty input; an empty stored block;
\* a stored block before a fixed one; back-references; two members;
\* dynamic blocks around a stored one behind a header with FHCRC, FNAME and
\* FCOMMENT; stored blocks in a row and a second member; a stream cut off
\* inside its only block, after the two literals and before the end of
\* block; the same stream cut off after its first magic byte; a stored
\* block cut off before its LEN; the first stream cut off before its block
\* header, before its CRC32 and inside its ISIZE; a stored block cut off
\* inside its bytes; a second member cut off after its first byte; a header
\* cut off inside its file name; a dynamic block cut off after its first
\* byte; a damaged CRC32; a damaged ISIZE; a damaged CRC32 of the first of
\* two members; a stored block of "abc" with a damaged NLEN
AB == <<Member(0, <<Blk("FixedHuffman", <<Lit(97), Lit(98)>>)>>)>>
HIJ == <<Member(8, <<Blk("FixedHuffman", <<Lit(104)>>)>>),
         Member(0, <<Blk("FixedHuffman", <<Lit(105), Lit(106)>>)>>)>>

Streams ==
    [k \in 1..9 |-> Chain(k - 1)]
    \o <<
      Whole(<<>>),
      Whole(<<Member(0, <<Blk("NoCompression", <<>>)>>)>>),
      Whole(<<Member(0, <<Blk("NoCompression", <<Lit(97), Lit(98), Lit(99)>>),
                          Blk("FixedHuffman", <<Lit(100), Lit(101)>>)>>)>>),
      Whole(<<Member(0, <<Blk("FixedHuffman",
                              <<Lit(97), Lit(98), Ref(3, 2), Lit(99),
                                Ref(4, 1)>>)>>)>>),
      Whole(<<Member(8, <<Blk("FixedHuffman", <<Lit(104)>>)>>),
              Member(0, <<Blk("FixedHuffman", <<Lit(105), Lit(106)>>)>>)>>),
      Whole(<<Member(26, <<Blk("DynamicHuffman", <<Lit(97), Ref(3, 1)>>),
                           Blk("NoCompression", <<Lit(98)>>),
                           Blk("DynamicHuffman", <<Lit(97)>>)>>)>>),
      Whole(<<Member(4, <<Blk("NoCompression", <<Lit(97)>>),
                          Blk("NoCompression", <<Lit(98), Lit(99)>>)>>),
              Member(0, <<Blk("FixedHuffman", <<Lit(100), Ref(3, 1)>>),
                          Blk("FixedHuffman", <<Lit(101)>>)>>)>>),
      Cut(AB, 9),
      Cut(AB, 21),
      Cut(<<Member(0, <<Blk("NoCompression", <<Lit(97), Lit(98), Lit(99)>>)>>)>>, 15),
      Cut(AB, 12),
      Cut(AB, 8),
      Cut(AB, 2),
      Cut(<<Member(0, <<Blk("NoCompression", <<Lit(97), Lit(98), Lit(99)>>)>>)>>, 9),
      Cut(HIJ, 21),
      Cut(<<Member(8, <<Blk("FixedHuffman", <<Lit(104)>>)>>)>>, 12),
      Cut(<<Member(0, <<Blk("DynamicHuffman", <<Lit(97)>>)>>)>>, 22),
      Flip(AB, 8),
      Flip(AB, 4),
      Flip(HIJ, 30),
      Flip(<<Member(0, <<Blk("NoCompression", <<Lit(97), Lit(98), Lit(99)>>)>>)>>, 12)
    >>

\* the stream is whole and undamaged: a valid GZIP input
Valid(s) == Streams[s].cut = 0 /\ Streams[s].flip = 0

Encoded == [s \in DOMAIN Streams |-> Encode(Streams[s])]


\* the output-buffer lengths a caller passes to read
BufLens == (0..MaxBuf) \cup {65536, 65537}

\* ------------------------------------------------------------------------
\* State: the deflator's fields, the history of its notifications and
\* writes, and the caller of read
\* ------------------------------------------------------------------------

VARIABLES
    buffer,          \* Deflator.buffer: the CircularBuffer
    state,           \* Deflator.state
    in_final_block,  \* Deflator.in_final_block
    reader,          \* Deflator.reader
    checkpointer,    \* Deflator.checkpointer
    calls,           \* history: notifications and bytes written, in order
    caller,          \* the caller: where it is in read, its buffer, the last result,
                     \* whether read_internal's loop is in an odd or even turn
    output,          \* every byte read has returned to the caller so far
    stream,          \* which of Streams is being read
    bytewise,        \* what reading this stream one byte at a time gives
    probe            \* a window or a Huffman table driven directly, without the
                     \* decoder: the calls made and what they returned

vars == <<buffer, state, in_final_block, reader, checkpointer, calls, caller,
          output, stream, bytewise, probe>>

Deflator ==
    [buffer |-> buffer, state |-> state, in_final_block |-> in_final_block,
     reader |-> reader, checkpointer |-> checkpointer, calls |-> calls]

\* nothing is driven directly while the decoder reads
NoProbe == [kind |-> "none"]

Idle(ret) == [pc |-> "idle", buf_len |-> 0, ret |-> ret, err |-> NoErr, turn |-> 0]

Init ==
    \E s \in DOMAIN Streams, start \in 0..(WindowCapacity - 1) :
        LET d == Deflator_new(reader_new(Encoded[s].bytes), Checkpointer_init, start)
        IN  /\ buffer = d.buffer
            /\ state = d.state
            /\ in_final_block = d.in_final_block
            /\ reader = d.reader
            /\ checkpointer = d.checkpointer
            /\ calls = d.calls
            /\ caller = Idle(<<>>)
            /\ output = <<>>
            /\ stream = s
            /\ bytewise = read_bytes(Deflator_new(reader_new(Encoded[s].bytes),
                                                   Checkpointer_init, 0), <<>>)
            /\ probe = NoProbe

\* Read::read is called with a buffer of n bytes: read_internal starts
\* with bytes_written = 0
Read(n) ==
    /\ caller.pc = "idle"
    /\ caller' = [caller EXCEPT !.pc = "reading", !.buf_len = n, !.ret = <<>>]
    /\ UNCHANGED <<buffer, state, in_final_block, reader, checkpointer, calls,
                   output, stream, bytewise, probe>>

\* read_internal without its loop: a variant that returns after one state
\* transition whatever it wrote
read_internal_once(res) ==
    /\ buffer' = res.d.buffer
    /\ state' = res.d.state
    /\ in_final_block' = res.d.in_final_block
    /\ reader' = res.d.reader
    /\ checkpointer' = res.d.checkpointer
    /\ calls' = res.d.calls
    /\ stream' = stream
    /\ bytewise' = bytewise
    /\ probe' = probe
    /\ IF res.err # NoErr
       THEN /\ caller' = [caller EXCEPT !.pc = "failed", !.err = res.err]
            /\ output' = output
       ELSE /\ caller' = Idle(<<Len(res.out)>>)
            /\ output' = output \o res.out

\* one turn of read_internal's loop: a state transition, then return when
\* it failed, wrote something or reached Done
read_internal(res) ==
    /\ buffer' = res.d.buffer
    /\ state' = res.d.state
    /\ in_final_block' = res.d.in_final_block
    /\ reader' = res.d.reader
    /\ checkpointer' = res.d.checkpointer
    /\ calls' = res.d.calls
    /\ stream' = stream
    /\ bytewise' = bytewise
    /\ probe' = probe
    /\ IF res.err # NoErr
       THEN /\ caller' = [caller EXCEPT !.pc = "failed", !.err = res.err]
            /\ output' = output
       ELSE IF Len(res.out) # 0 \/ res.d.state.tag = "Done"
       THEN /\ caller' = Idle(<<Len(res.out)>>)
            /\ output' = output \o res.out
       ELSE /\ caller' = [caller EXCEPT !.turn = 1 - caller.turn]
            /\ output' = output

\* one turn of the loop of read_internal: the arm of the current state
Step ==
    /\ caller.pc = "reading"
    /\ \E res \in {state_transition(Deflator, caller.buf_len)} : read_internal(res)

GZIPHeader ==
    /\ state.tag = "GZIPHeader"
    /\ Step

BlockHeader ==
    /\ state.tag = "BlockHeader"
    /\ Step

PrepareNonCompressedBlock ==
    /\ state.tag = "PrepareNonCompressedBlock"
    /\ Step

NonCompressedBlock ==
    /\ state.tag = "NonCompressedBlock"
    /\ Step

PrepareDynamicBlock ==
    /\ state.tag = "PrepareDynamicBlock"
    /\ Step

DecodeBlock ==
    /\ state.tag = "DecodeBlock"
    /\ Step

WriteLookback ==
    /\ state.tag = "WriteLookback"
    /\ Step

CheckIfFinalBlock ==
    /\ state.tag = "CheckIfFinalBlock"
    /\ Step

GZIPFooter ==
    /\ state.tag = "GZIPFooter"
    /\ Step

Done ==
    /\ state.tag = "Done"
    /\ Step

ReadCall == \E n \in BufLens : Read(n)

Next ==
    \/ ReadCall
    \/ GZIPHeader
    \/ BlockHeader
    \/ PrepareNonCompressedBlock
    \/ NonCompressedBlock
    \/ PrepareDynamicBlock
    \/ DecodeBlock
    \/ WriteLookback
    \/ CheckIfFinalBlock
    \/ GZIPFooter
    \/ Done

Spec == Init /\ [][Next]_vars

\* ------------------------------------------------------------------------
\* The member counter close to 2^32.  A tail is the end of a member that
\* has already produced count bytes: the decoder is inside the member's
\* last block, a stored one with the bytes of TailBytes left, and the input
\* holds these bytes and the trailer.  The bytes produced before left the
\* member digest at its initial register and zeroes in the window.
\* ------------------------------------------------------------------------

TailBytes == <<97, 98>>

\* v + n modulo 2^32, for n below 2^16
U32Add(v, n) == <<(v[1] + ((v[2] + n) \div U16)) % U16, (v[2] + n) % U16>>

\* the counts before the tail: 2^16 - 1, 2^32 - 2 and 2^32 - 1
TailCounts == <<<<0, U16 - 1>>, <<U16 - 1, U16 - 2>>, <<U16 - 1, U16 - 1>>>>

\* the tails: for each count, a trailer whose ISIZE is the member's size
\* modulo 2^32, one whose ISIZE is 2^32 - 1 and one whose ISIZE is the size
\* of the last block alone
Tails ==
    [t \in 1..(3 * Len(TailCounts)) |->
        The({ [count |-> c,
               isize |-> CASE t % 3 = 1 -> U32Add(c, Len(TailBytes))
                           [] t % 3 = 2 -> <<U16 - 1, U16 - 1>>
                           [] t % 3 = 0 -> <<0, Len(TailBytes)>>]
              : c \in {TailCounts[((t - 1) \div 3) + 1]} })]

\* is the input being read a tail, and which
IsTail == stream \notin DOMAIN Streams
TailRead == Tails[stream - Len(Streams)]

InitTail ==
    \E t \in DOMAIN Tails, start \in 0..(WindowCapacity - 1) :
        LET d == [buffer |-> [CircularBuffer_new(WindowCapacity, start) EXCEPT
                                 !.counter = Tails[t].count,
                                 !.bytes_written = Tails[t].count],
                  state |-> StNonCompressedBlock(Len(TailBytes)),
                  in_final_block |-> TRUE,
                  reader |-> reader_new(TailBytes \o U32LeBytes(Crc32Of(TailBytes))
                                                 \o U32LeBytes(Tails[t].isize)),
                  checkpointer |-> Checkpointer_init,
                  calls |-> <<>>]
        IN  /\ buffer = d.buffer
            /\ state = d.state
            /\ in_final_block = d.in_final_block
            /\ reader = d.reader
            /\ checkpointer = d.checkpointer
            /\ calls = d.calls
            /\ caller = Idle(<<>>)
            /\ output = <<>>
            /\ stream = Len(Streams) + t
            /\ bytewise = read_bytes(d, <<>>)
            /\ probe = NoProbe

\* the reads of the streams and of the tails
SpecIsize == (Init \/ InitTail) /\ [][Next]_vars

\* ------------------------------------------------------------------------
\* Inputs no encoder writes: members whose only block uses the fixed codes
\* of symbols DEFLATE leaves unused, or ends a back-reference at the last
\* length and distance symbols.
\* ------------------------------------------------------------------------

\* the bits after BFINAL = 1, BTYPE = 01: the fixed codes of the symbols
\* 286 and 287; of 285 then the distance symbol 30; of 257 then five bits 1
\* (31 is no distance symbol); of the literal 97, of 257 and of the distance
\* symbol 29 with its thirteen extra bits, and of the end of block
CraftedBits ==
    << MsbBits(198, 8),
       MsbBits(199, 8),
       MsbBits(197, 8) \o MsbBits(30, 5),
       MsbBits(1, 7) \o MsbBits(31, 5),
       MsbBits(145, 8) \o MsbBits(1, 7) \o MsbBits(29, 5) \o LsbBits(0, 13)
           \o MsbBits(0, 7) >>

\* the bytes of a crafted input: the header, the block, and zeros where
\* the trailer would be
CraftedBytes(c) ==
    The({ HeaderBytes(0) \o BitsToBytes(bits \o PadBits(bits))
              \o <<0, 0, 0, 0, 0, 0, 0, 0>>
          : bits \in {<<1, 1, 0>> \o CraftedBits[c]} })

\* is the input being read a crafted one, and which
IsCrafted == stream > Len(Streams) + Len(Tails)
CraftedRead == stream - (Len(Streams) + Len(Tails))

InitCrafted ==
    \E c \in DOMAIN CraftedBits, start \in 0..(WindowCapacity - 1) :
        LET d == Deflator_new(reader_new(CraftedBytes(c)), Checkpointer_init, start)
        IN  /\ buffer = d.buffer
            /\ state = d.state
            /\ in_final_block = d.in_final_block
            /\ reader = d.reader
            /\ checkpointer = d.checkpointer
            /\ calls = d.calls
            /\ caller = Idle(<<>>)
            /\ output = <<>>
            /\ stream = Len(Streams) + Len(Tails) + c
            /\ bytewise = read_bytes(Deflator_new(reader_new(CraftedBytes(c)),
                                                   Checkpointer_init, 0), <<>>)
            /\ probe = NoProbe

\* the reads of the streams and of the crafted inputs
SpecCrafted == (Init \/ InitCrafted) /\ [][Next]_vars

\* ------------------------------------------------------------------------
\* The window driven directly (cornifer/src/circle.rs): two windows of the
\* same capacity, buffer with a head drawn by new and probe.twin with its
\* head at 0, are given the same calls of push and push_from_buffer.
\* probe.pushed is the history: the bytes the calls have pushed, oldest
\* first.  probe.op is the last call and the error it returned on each of
\* the two windows.
\* ------------------------------------------------------------------------

\* the bytes push is called with
WindowBytes == {1, 2}

\* the capacity of the two windows
ProbeCapacity == 3

\* the <<lookback, size>> push_from_buffer is called with: nothing to copy,
\* lookback 0, lookbacks below the size, a lookback of the whole window, the
\* largest lookback accepted and the smallest one refused
CopyCalls ==
    {<<1, 0>>, <<0, 1>>, <<1, 3>>, <<2, 3>>, <<2, 1>>, <<ProbeCapacity, 2>>,
     <<32768, 1>>, <<32769, 2>>}

\* the calls stop once the history is this long
MaxPushes == ProbeCapacity + 2

\* counter and bytes_written when the calls start: 0, or two below 2^32
StartCounts == {U32Zero, <<U16 - 1, U16 - 2>>}

WindowOp(name, lookback, size, err) ==
    [name |-> name, lookback |-> lookback, size |-> size, err |-> err]

\* the window as new leaves it, after count bytes whose digests are not
\* followed
StartWindow(start, count) ==
    [CircularBuffer_new(ProbeCapacity, start) EXCEPT
        !.counter = count, !.bytes_written = count]

InitWindow ==
    \E start \in 0..(ProbeCapacity - 1), count \in StartCounts :
        /\ buffer = StartWindow(start, count)
        /\ state = St("Done")
        /\ in_final_block = FALSE
        /\ reader = reader_new(<<>>)
        /\ checkpointer = Checkpointer_init
        /\ calls = <<>>
        /\ caller = Idle(<<>>)
        /\ output = <<>>
        /\ stream = 0
        /\ bytewise = [calls |-> <<>>, out |-> <<>>, err |-> NoErr]
        /\ probe = [kind |-> "window", twin |-> StartWindow(0, count),
                    start |-> count, pushed |-> <<>>,
                    op |-> WindowOp("new", 0, 0, <<NoErr, NoErr>>)]

\* CircularBuffer::push called on both windows
WindowPush ==
    \E byte \in WindowBytes :
        /\ probe.kind = "window"
        /\ Len(probe.pushed) < MaxPushes
        /\ buffer' = push(buffer, byte)
        /\ probe' = [probe EXCEPT !.twin = push(probe.twin, byte),
                                  !.pushed = Append(probe.pushed, byte),
                                  !.op = WindowOp("push", 0, 0, <<NoErr, NoErr>>)]
        /\ UNCHANGED <<state, in_final_block, reader, checkpointer, calls, caller,
                       output, stream, bytewise>>

\* what the window has held: the zeroes new fills it with, then the history
Held(pushed) == [i \in 1..ProbeCapacity |-> 0] \o pushed

\* the history after size bytes were copied from lookback bytes back: a
\* lookback of 0 or beyond the capacity goes round the ring, as the index
\* of the byte copied is taken modulo the capacity
RECURSIVE HistoryCopy(_, _, _)
HistoryCopy(pushed, lookback, size) ==
    IF size = 0 THEN pushed
    ELSE HistoryCopy(
           Append(pushed,
                  Held(pushed)[Len(Held(pushed))
                               - ((lookback - 1) % ProbeCapacity)]),
           lookback, size - 1)

\* CircularBuffer::push_from_buffer called on both windows
WindowPushFromBuffer ==
    \E call \in CopyCalls : \E lookback \in {call[1]}, size \in {call[2]} :
        /\ probe.kind = "window"
        /\ Len(probe.pushed) + size <= MaxPushes
        /\ \E res \in {push_from_buffer(buffer, lookback, size)},
              res2 \in {push_from_buffer(probe.twin, lookback, size)} :
                /\ buffer' = res.cb
                /\ probe' = [probe EXCEPT
                                !.twin = res2.cb,
                                !.pushed = IF res.err # NoErr THEN probe.pushed
                                           ELSE HistoryCopy(probe.pushed, lookback, size),
                                !.op = WindowOp("push_from_buffer", lookback, size,
                                                <<res.err, res2.err>>)]
        /\ UNCHANGED <<state, in_final_block, reader, checkpointer, calls, caller,
                       output, stream, bytewise>>

NextWindow ==
    \/ WindowPush
    \/ WindowPushFromBuffer

SpecWindow == InitWindow /\ [][NextWindow]_vars

\* ------------------------------------------------------------------------
\* HuffmanTree::new called directly (scry/src/huffman.rs) on a vector of
\* code lengths: probe.bit_lengths is the vector, probe.tree the table once
\* it is built.
\* ------------------------------------------------------------------------

\* the vectors have this many symbols
NumSymbols == 5

\* the code lengths drawn: no code, the two shortest and the longest
CodeLengths == {0, 1, 2, MAX_HUFFMAN_BITS}

InitHuffman ==
    \E bit_lengths \in [1..NumSymbols -> CodeLengths] :
        /\ buffer = CircularBuffer_new(WindowCapacity, 0)
        /\ state = St("Done")
        /\ in_final_block = FALSE
        /\ reader = reader_new(<<>>)
        /\ checkpointer = Checkpointer_init
        /\ calls = <<>>
        /\ caller = Idle(<<>>)
        /\ output = <<>>
        /\ stream = 0
        /\ bytewise = [calls |-> <<>>, out |-> <<>>, err |-> NoErr]
        /\ probe = [kind |-> "huffman", bit_lengths |-> bit_lengths,
                    built |-> FALSE, tree |-> HuffmanTree_default,
                    op |-> [name |-> "none"]]

\* HuffmanTree::new(bit_lengths)
HuffmanBuild ==
    /\ probe.kind = "huffman"
    /\ ~probe.built
    /\ probe' = [probe EXCEPT !.built = TRUE,
                              !.tree = HuffmanTree_new(probe.bit_lengths)]
    /\ UNCHANGED <<buffer, state, in_final_block, reader, checkpointer, calls,
                   caller, output, stream, bytewise>>

\* the code values and lengths looked up: the first codes of the lengths
\* drawn, their neighbours, and a length no code has
LookupCodes == {0, 1, 2, 3, 24576}
LookupBits == {1, 2, 3, MAX_HUFFMAN_BITS}

\* HuffmanTree::decode(code, len) on the table built
TreeDecode ==
    /\ probe.kind = "huffman"
    /\ probe.built
    /\ probe.op.name = "none"
    /\ \E code \in LookupCodes, len \in LookupBits :
          probe' = [probe EXCEPT !.op =
                      [name |-> "lookup", code |-> code, len |-> len,
                       res |-> tree_decode(probe.tree, code, len)]]
    /\ UNCHANGED <<buffer, state, in_final_block, reader, checkpointer, calls,
                   caller, output, stream, bytewise>>

\* the sources a symbol is decoded from: up to two bytes, which hold the
\* codes of the lengths drawn (0 and 1; 1 and 3 read first bit first; 3
\* then 0 or 64 for two codes of 15 bits) and sixteen bits that are no code
SourceBytes == {0, 1, 3, 64, 255}
Sources == {<<>>} \cup {<<a>> : a \in SourceBytes}
             \cup {<<a, b>> : a \in SourceBytes, b \in SourceBytes}

\* Deflator::decode(tree) on a reader over a fresh source
DecodeSymbol ==
    /\ probe.kind = "huffman"
    /\ probe.built
    /\ probe.op.name = "none"
    /\ \E bytes \in Sources :
          probe' = [probe EXCEPT !.op =
                      [name |-> "decode", bytes |-> bytes,
                       res |-> decode(reader_new(bytes), probe.tree)]]
    /\ UNCHANGED <<buffer, state, in_final_block, reader, checkpointer, calls,
                   caller, output, stream, bytewise>>

NextHuffman == HuffmanBuild \/ TreeDecode \/ DecodeSymbol

SpecHuffman == InitHuffman /\ [][NextHuffman]_vars

\* ------------------------------------------------------------------------
\* The header of a dynamic block driven directly (arm PrepareDynamicBlock
\* of scry/src/decompress.rs).  A header is HLIT, HDIST and a list of
\* code-length instructions <<symbol, extra>>; the code-length code gives
\* three bits to each of the symbols 0..4, 16, 17 and 18, and the source
\* goes on with zero bits, which read as the length 0, so that every header
\* fills its vector.
\* ------------------------------------------------------------------------

\* the lengths of the code-length code, by symbol
ClLengths == [i \in 1..19 |-> IF i - 1 <= 4 \/ i - 1 >= 16 THEN 3 ELSE 0]

\* the code of a symbol in that code: the eight codes of three bits, in
\* the order of the symbols
ClCode(symbol) == IF symbol <= 4 THEN symbol ELSE symbol - 11

\* the extra bits that follow a code-length symbol
ClExtraBits(symbol) ==
    IF symbol = 16 THEN 2 ELSE IF symbol = 17 THEN 3
    ELSE IF symbol = 18 THEN 7 ELSE 0

\* the bits of a list of instructions
RECURSIVE InstructionBits(_)
InstructionBits(instrs) ==
    IF instrs = <<>> THEN <<>>
    ELSE MsbBits(ClCode(Head(instrs)[1]), 3)
         \o LsbBits(Head(instrs)[2], ClExtraBits(Head(instrs)[1]))
         \o InstructionBits(Tail(instrs))

\* the bits of HLIT, HDIST, HCLEN = 15 and the nineteen lengths of the
\* code-length code in the order they are stored
RECURSIVE ClLengthBits(_)
ClLengthBits(i) ==
    IF i > 19 THEN <<>>
    ELSE LsbBits(ClLengths[CODE_LENGTH_ORDER[i] + 1], 3) \o ClLengthBits(i + 1)

CountBits(hlit, hdist) ==
    LsbBits(hlit, 5) \o LsbBits(hdist, 5) \o LsbBits(15, 4) \o ClLengthBits(1)

\* the zero bytes a source goes on with: enough for every length of the
\* vector
ZeroBytes == [i \in 1..128 |-> 0]

SourceOf(bits) == BitsToBytes(bits \o PadBits(bits)) \o ZeroBytes

\* the instructions before the ones drawn: none; 255 zero lengths; 310 zero
\* lengths
Fills ==
    << <<>>,
       << <<18, 127>>, <<18, 106>> >>,
       << <<18, 127>>, <<18, 127>>, <<18, 23>> >> >>

\* the instructions after the ones drawn, when these start at index 0: 257
\* zero lengths
Rest == << <<18, 127>>, <<18, 108>> >>

\* the instructions drawn: the lengths 1 and 2, and each repeat symbol
\* with its smallest and its largest count
Instructions ==
    {<<1, 0>>, <<2, 0>>, <<16, 0>>, <<16, 3>>, <<17, 0>>, <<17, 7>>,
     <<18, 0>>, <<18, 127>>}

\* the headers: HLIT = 257 and HDIST = 1 with the instructions drawn at
\* index 0 and at index 255; HLIT = 288 and HDIST = 28, which fill the 316
\* entries, and HLIT = 288 and HDIST = 32, at index 310
HeaderShapes ==
    {[hlit |-> 0, hdist |-> 0, fill |-> 1], [hlit |-> 0, hdist |-> 0, fill |-> 2],
     [hlit |-> 31, hdist |-> 27, fill |-> 3], [hlit |-> 31, hdist |-> 31, fill |-> 3]}

Headers ==
    {[hlit |-> h.hlit, hdist |-> h.hdist,
      instrs |-> Fills[h.fill] \o t \o (IF h.fill = 1 THEN Rest ELSE <<>>)] :
        h \in HeaderShapes,
        t \in {<<>>} \cup {<<a>> : a \in Instructions}
               \cup {<<a, b>> : a \in Instructions, b \in Instructions}}

InitDynamic ==
    \E header \in Headers :
        /\ buffer = CircularBuffer_new(WindowCapacity, 0)
        /\ state = St("PrepareDynamicBlock")
        /\ in_final_block = FALSE
        /\ reader = reader_new(SourceOf(CountBits(header.hlit, header.hdist)
                                        \o InstructionBits(header.instrs)))
        /\ checkpointer = Checkpointer_init
        /\ calls = <<>>
        /\ caller = Idle(<<>>)
        /\ output = <<>>
        /\ stream = 0
        /\ bytewise = [calls |-> <<>>, out |-> <<>>, err |-> NoErr]
        /\ probe = [kind |-> "dynamic", header |-> header,
                    op |-> [name |-> "none"]]

\* the while loop of arm PrepareDynamicBlock on the instructions of the
\* header, with the code-length code already built: combined_cls and the
\* error are kept
ReadCombinedCls ==
    /\ probe.kind = "dynamic"
    /\ probe.op.name = "none"
    /\ \E res \in {read_combined_cls(
                       reader_new(SourceOf(InstructionBits(probe.header.instrs))),
                       HuffmanTree_new(ClLengths),
                       [i \in 1..(MAX_DISTANCE_CODES + MAX_SYMBOL_CODES) |-> 0],
                       0, (probe.header.hlit + 257) + (probe.header.hdist + 1))} :
          probe' = [probe EXCEPT !.op = [name |-> "read_combined_cls",
                                         cls |-> res.v, err |-> res.err]]
    /\ UNCHANGED <<buffer, state, in_final_block, reader, checkpointer, calls,
                   caller, output, stream, bytewise>>

\* state_transition in PrepareDynamicBlock, on the whole header
PrepareDynamic ==
    /\ probe.kind = "dynamic"
    /\ probe.op.name = "none"
    /\ state.tag = "PrepareDynamicBlock"
    /\ \E res \in {state_transition(Deflator, 0)} :
          /\ buffer' = res.d.buffer
          /\ state' = res.d.state
          /\ in_final_block' = res.d.in_final_block
          /\ reader' = res.d.reader
          /\ checkpointer' = res.d.checkpointer
          /\ calls' = res.d.calls
          /\ probe' = [probe EXCEPT !.op = [name |-> "state_transition",
                                            err |-> res.err]]
    /\ UNCHANGED <<caller, output, stream, bytewise>>

NextDynamic == ReadCombinedCls \/ PrepareDynamic

SpecDynamic == InitDynamic /\ [][NextDynamic]_vars

\* ------------------------------------------------------------------------
\* The reader driven directly (cornifer/src/reader.rs): reader is a
\* CorniferByteReader over probe.source, given calls in any order.
\* probe.op is the last call and what it returned; probe.bit_byte is the
\* history of read_bit: which byte of the source, counted from 1, the last
\* byte fetched for its bits was (0 when none was).
\* ------------------------------------------------------------------------

\* the bytes of the sources (those of test_read_bit) and the sources
ReaderBytes == {153, 28}
ReaderSources ==
    {<<>>} \cup {<<a>> : a \in ReaderBytes}
           \cup {<<a, b>> : a \in ReaderBytes, b \in ReaderBytes}
           \cup {<<a, b, c>> : a \in ReaderBytes, b \in ReaderBytes,
                               c \in ReaderBytes}

\* the numbers of bits read_n_bits_le is called with: none, one, some of a
\* byte, more than a byte, the largest number accepted and the first refused
BitCounts == {0, 1, 3, 9, 16, 17}

ReaderOp(name, n, res) == [name |-> name, n |-> n, v |-> res.v, err |-> res.err]

InitReader ==
    \E source \in ReaderSources :
        /\ buffer = CircularBuffer_new(WindowCapacity, 0)
        /\ state = St("Done")
        /\ in_final_block = FALSE
        /\ reader = reader_new(source)
        /\ checkpointer = Checkpointer_init
        /\ calls = <<>>
        /\ caller = Idle(<<>>)
        /\ output = <<>>
        /\ stream = 0
        /\ bytewise = [calls |-> <<>>, out |-> <<>>, err |-> NoErr]
        /\ probe = [kind |-> "reader", source |-> source, bit_byte |-> 0,
                    op |-> [name |-> "none", n |-> 0, v |-> 0, err |-> NoErr]]

\* a call on the reader that returned res
ReaderCall(name, n, res) ==
    /\ reader' = res.r
    /\ probe' = [probe EXCEPT
                   !.op = ReaderOp(name, n, res),
                   !.bit_byte = IF name \in {"read_bit", "read_n_bits_le"}
                                   /\ res.r.current_byte # reader.current_byte
                                THEN res.r.current_byte ELSE probe.bit_byte]
    /\ UNCHANGED <<buffer, state, in_final_block, checkpointer, calls, caller,
                   output, stream, bytewise>>

\* read_bit
ReadBit ==
    /\ probe.kind = "reader"
    /\ ReaderCall("read_bit", 1, read_bit(reader))

\* read_n_bits_le(n)
ReadNBitsLe ==
    /\ probe.kind = "reader"
    /\ \E n \in BitCounts : ReaderCall("read_n_bits_le", n, read_n_bits_le(reader, n))

\* read_u8
ReadU8 ==
    /\ probe.kind = "reader"
    /\ ReaderCall("read_u8", 8, read_u8(reader))

\* read_u16_le
ReadU16Le ==
    /\ probe.kind = "reader"
    /\ ReaderCall("read_u16_le", 16, read_u16_le(reader))

\* discard_until_next_byte
DiscardUntilNextByte ==
    /\ probe.kind = "reader"
    /\ ReaderCall("discard_until_next_byte", 0,
                  [r |-> discard_until_next_byte(reader), v |-> 0, err |-> NoErr])

NextReader ==
    ReadBit \/ ReadNBitsLe \/ ReadU8 \/ ReadU16Le \/ DiscardUntilNextByte

SpecReader == InitReader /\ [][NextReader]_vars

\* ------------------------------------------------------------------------
\* read_header driven directly (cornifer/src/header.rs): reader is a
\* CorniferByteReader over probe.source, a member header with any of the
\* 32 values of FLG, whole or with one byte changed, and two bytes after it.
\* ------------------------------------------------------------------------

HeaderSources ==
    UNION {{Damaged(whole, flip) : flip \in 0..Len(whole)} :
             whole \in {HeaderBytes(flg) \o <<3, 0>> : flg \in 0..31}}

InitHeader ==
    \E source \in HeaderSources :
        /\ buffer = CircularBuffer_new(WindowCapacity, 0)
        /\ state = St("GZIPHeader")
        /\ in_final_block = FALSE
        /\ reader = reader_new(source)
        /\ checkpointer = Checkpointer_init
        /\ calls = <<>>
        /\ caller = Idle(<<>>)
        /\ output = <<>>
        /\ stream = 0
        /\ bytewise = [calls |-> <<>>, out |-> <<>>, err |-> NoErr]
        /\ probe = [kind |-> "header", source |-> source,
                    op |-> [name |-> "none", err |-> NoErr]]

\* read_header(&mut reader)
ReadHeader ==
    /\ probe.kind = "header"
    /\ probe.op.name = "none"
    /\ \E res \in {read_header(reader)} :
          /\ reader' = res.r
          /\ probe' = [probe EXCEPT !.op = [name |-> "read_header",
                                            err |-> res.err]]
    /\ UNCHANGED <<buffer, state, in_final_block, checkpointer, calls, caller,
                   output, stream, bytewise>>

SpecHeader == InitHeader /\ [][ReadHeader]_vars

\* ------------------------------------------------------------------------
\* Properties
\* ------------------------------------------------------------------------

\* what the encoder knows of the blocks of the stream being read
Facts == Encoded[stream].facts

\* the rows of the HuffmanBlock table
Rows == checkpointer.rows

IsNotification(c) == c.op # "out"

\* the checkpointer notifications so far, in order
Notifications == SelectSeq(calls, IsNotification)

IsPrefix(a, b) == Len(a) <= Len(b) /\ a = SubSeq(b, 1, Len(a))

\* the block the i-th entry of calls belongs to: the number of
\* on_block_start up to it
BlockOf(i) == Cardinality({j \in 1..i : calls[j].op = "on_block_start"})

NumStarts == BlockOf(Len(calls))

\* the entries of calls that are op and belong to block k
CallsOf(k, op) == {i \in DOMAIN calls : calls[i].op = op /\ BlockOf(i) = k}

\* block k has been decoded to its end
Ended(k) ==
    \/ k < NumStarts
    \/ /\ k = NumStarts
       /\ caller.pc # "failed"
       /\ state.tag \in {"CheckIfFinalBlock", "GZIPFooter", "GZIPHeader",
                         "BlockHeader", "Done"}

\* the reads have ended at Done without an error
AtDone == state.tag = "Done" /\ caller.pc = "idle"

\* C1: when an input has decoded without error to Done, every block of it
\* (stored, fixed or dynamic) has received exactly one on_block_start, one
\* on_block_data_start and one on_block_end, and there are as many
\* on_block_start as on_block_end
C1_OneStartDataStartEndPerBlock ==
    AtDone =>
        /\ \A k \in DOMAIN Facts :
              /\ Cardinality(CallsOf(k, "on_block_start")) = 1
              /\ Cardinality(CallsOf(k, "on_block_data_start")) = 1
              /\ Cardinality(CallsOf(k, "on_block_end")) = 1
        /\ Cardinality({i \in DOMAIN calls : calls[i].op = "on_block_start"})
             = Cardinality({i \in DOMAIN calls : calls[i].op = "on_block_end"})

\* C2: the crc32 passed to on_block_end is the CRC-32 of exactly the bytes
\* the block it ends produced, whatever blocks precede it
C2_BlockCrcIsOfThisBlock ==
    \A i \in DOMAIN calls :
        calls[i].op = "on_block_end" =>
            calls[i].args[4] = Crc32Of(Facts[BlockOf(i)].out)

\* C3: the notifications of a block come in the order on_block_start,
\* set_block_type, on_block_data_start, on_block_end: each one directly
\* follows the one before it in this order, so none comes twice or out of
\* order, and a block starts only after the block before it, whatever the
\* buffer sizes of the reads
C3_NotificationOrder ==
    The({ \A i \in DOMAIN n :
            /\ n[i].op = "on_block_start" =>
                  i = 1 \/ n[i - 1].op \in {"on_block_data_start", "on_block_end"}
            /\ n[i].op = "set_block_type" =>
                  i > 1 /\ n[i - 1].op = "on_block_start"
            /\ n[i].op = "on_block_data_start" =>
                  i > 1 /\ n[i - 1].op = "set_block_type"
            /\ n[i].op = "on_block_end" =>
                  i > 1 /\ n[i - 1].op = "on_block_data_start"
          : n \in {Notifications} })

\* C3, its case: a stream of a dynamic, a stored and a dynamic block has
\* been read to Done and all four notifications have been issued
C3_AllNotificationsIssued ==
    /\ AtDone
    /\ stream = 15
    /\ NumStarts = 3
    /\ {calls[i].op : i \in DOMAIN calls} =
          {"on_block_start", "set_block_type", "on_block_data_start",
           "on_block_end", "out"}

\* C4: every output byte of a block after the first is written after
\* on_block_start, on_block_data_start and on_block_end of the block before
C4_NotificationsBeforeNextOutput ==
    \A i \in DOMAIN calls :
        (calls[i].op = "out" /\ BlockOf(i) >= 2) =>
            \A op \in {"on_block_start", "on_block_data_start", "on_block_end"} :
                \E j \in 1..(i - 1) :
                    calls[j].op = op /\ BlockOf(j) = BlockOf(i) - 1

\* C5: a read that returns 0 bytes without error leaves the decoder in Done;
\* a successful read that leaves it in any other state returned at least
\* one byte
C5_ZeroOnlyAtDone ==
    (caller.pc = "idle" /\ caller.ret # <<>>) =>
        /\ caller.ret[1] = 0 => state.tag = "Done"
        /\ state.tag # "Done" => caller.ret[1] >= 1

\* C5, its case: after output has been returned a read returns 0 at Done
C5_ZeroReturnedAtDone ==
    /\ caller.pc = "idle"
    /\ caller.ret = <<0>>
    /\ state.tag = "Done"
    /\ Len(output) > 0

\* C6 as claimed: when the reads have ended, at Done or with an error, the
\* bytes they returned and the notifications with their arguments are those
\* of reading one byte at a time
C6_SameForEveryBufferSizes ==
    (AtDone \/ caller.pc = "failed") =>
        /\ output = bytewise.out
        /\ Notifications = SelectSeq(bytewise.calls, IsNotification)

\* C6, amended: while no read has failed, the bytes returned and the
\* notifications and writes with their arguments are a prefix of those of
\* reading one byte at a time, and at Done they are the same
C6_SameUnlessFailed ==
    caller.pc # "failed" =>
        /\ IsPrefix(output, bytewise.out)
        /\ IsPrefix(calls, bytewise.calls)
        /\ AtDone =>
              /\ output = bytewise.out
              /\ calls = bytewise.calls

\* C6, its case: of a back-reference of three bytes one read has returned
\* one byte and the next read two
C6_MixedBufferSizes ==
    /\ stream = 13
    /\ caller.pc = "idle"
    /\ caller.ret = <<2>>
    /\ Len(output) = 5
    /\ state.tag = "DecodeBlock"

\* C7: the position on_block_start records is the first bit of the block
\* header: from_byte * 8 + from_bit is the number of input bits before the
\* header, in every row and for the block started last
C7_StartIsFirstHeaderBit ==
    /\ \A k \in DOMAIN Rows :
          Rows[k].from_byte * 8 + Rows[k].from_bit = Facts[k].start
    /\ NumStarts > 0 =>
          checkpointer.emit_byte * 8 + checkpointer.emit_bit
             = Facts[NumStarts].start

\* C7, its case: blocks have started at every bit offset 0..7, and after
\* other blocks
C7_EveryBitOffset ==
    /\ stream = 9
    /\ AtDone
    /\ {Rows[k].from_bit : k \in DOMAIN Rows} = 0..7

\* C8: a block that has reached its end has block_len_bits equal to the
\* number of input bits from the first bit of its header to the last bit
\* of its end
C8_BlockLenBits ==
    \A k \in DOMAIN Rows :
        Ended(k) => Rows[k].block_len_bits = <<Facts[k].end - Facts[k].start>>

\* C9: header_len_bits is the number of input bits from the first bit of
\* the block header to the first bit of the block body: 3 for a fixed
\* block, 3 + padding to the byte boundary + 32 for a stored block
C9_HeaderLenBits ==
    \A k \in DOMAIN Rows :
        /\ Rows[k].header_len_bits = <<Facts[k].body - Facts[k].start>>
        /\ Rows[k].block_type = "fixed" => Rows[k].header_len_bits = <<3>>
        /\ Rows[k].block_type = "nocompression" =>
              Rows[k].header_len_bits =
                 <<3 + ((8 - ((Facts[k].start + 3) % 8)) % 8) + 32>>

\* C9, its case: fixed blocks at every bit offset 0..7 and a stored block
\* with padding have their rows
C9_FixedAtEveryOffsetAndStored ==
    /\ stream = 9
    /\ {Rows[k].from_bit : k \in {j \in DOMAIN Rows : Rows[j].block_type = "fixed"}}
          = 0..7
    /\ \E k \in DOMAIN Rows :
          /\ Rows[k].block_type = "nocompression"
          /\ Rows[k].header_len_bits[1] > 35

\* C10: to_byte of a row is the number of bytes all earlier blocks of all
\* members produced, len of an ended block the number of bytes it produced,
\* and to_byte of the next row is to_byte + len
C10_ToByteAndLen ==
    \A k \in DOMAIN Rows :
        /\ Rows[k].to_byte = Facts[k].to_byte
        /\ Ended(k) => Rows[k].len = <<Len(Facts[k].out)>>
        /\ (k + 1) \in DOMAIN Rows =>
              /\ Rows[k].len # <<>>
              /\ Rows[k + 1].to_byte = Rows[k].to_byte + Rows[k].len[1]

\* the bytes written before the i-th entry of the history, in order
OutBefore(i) ==
    The({ [j \in DOMAIN o |-> o[j].args[1]]
          : o \in {SelectSeq(SubSeq(calls, 1, i - 1), LAMBDA c : c.op = "out")} })

\* the index in the history of the on_block_start of the block entry i
\* belongs to
StartOf(i) ==
    CHOOSE j \in 1..i :
        calls[j].op = "on_block_start" /\ BlockOf(j) = BlockOf(i)

\* C11: the data handed to on_block_data_start has exactly as many bytes as
\* the window holds, oldest first; with m the smaller of the block's to_byte
\* and the window capacity, its last m bytes are the last m bytes written
\* before the block, and the bytes before them are the zeroes the window
\* started with, so none is a byte of the block itself
C11_SnapshotIsOutputBeforeBlock ==
    \A i \in DOMAIN calls :
        calls[i].op = "on_block_data_start" =>
            The({ The({ /\ Len(data) = WindowCapacity
                        /\ calls[StartOf(i)].args[3] = Len(before)
                        /\ SubSeq(data, WindowCapacity - m + 1, WindowCapacity)
                              = SubSeq(before, Len(before) - m + 1, Len(before))
                        /\ \A j \in 1..(WindowCapacity - m) : data[j] = 0
                        : m \in {Min(calls[StartOf(i)].args[3], WindowCapacity)} })
                  : data \in {calls[i].args[3]}, before \in {OutBefore(i)} })

\* C11, its case: a block's data starts after more bytes were written than
\* the window holds, in a window whose head did not start at its first cell,
\* and another block's data starts after fewer
C11_SnapshotAfterWindowFilled ==
    /\ \E i \in DOMAIN calls :
          /\ calls[i].op = "on_block_data_start"
          /\ Len(OutBefore(i)) > WindowCapacity
          /\ calls[i].args[3] # buffer.buffer
    /\ \E i \in DOMAIN calls :
          /\ calls[i].op = "on_block_data_start"
          /\ Len(OutBefore(i)) \in 1..(WindowCapacity - 1)

\* what decoding the stream made of these members alone gives, read one
\* byte at a time by a fresh decoder
Decode(members) ==
    read_bytes(Deflator_new(reader_new(Encode(Whole(members)).bytes),
                            Checkpointer_init, 0), <<>>)

\* C12: a valid stream never fails, and when it has been read to Done, for
\* every way of splitting its members into a stream X and a stream Y, the
\* output is the output of X alone followed by the output of Y alone;
\* whenever the decoder is at a member header, the member byte counter is 0
\* and the member digest is fresh
C12_ConcatenationOfMembers ==
    /\ Valid(stream) => caller.pc # "failed"
    /\ (AtDone /\ Valid(stream)) =>
          \A k \in 0..Len(Streams[stream].members) :
              The({ /\ x.err = NoErr
                    /\ y.err = NoErr
                    /\ output = x.out \o y.out
                    : x \in {Decode(SubSeq(Streams[stream].members, 1, k))},
                      y \in {Decode(SubSeq(Streams[stream].members, k + 1,
                                           Len(Streams[stream].members)))} })
    /\ state.tag = "GZIPHeader" =>
          /\ buffer.counter = U32Zero
          /\ buffer.gzip_digest = crc_digest

\* C12, its case: a stream of two members of two blocks each, the second
\* holding a back-reference, has been read to Done and both members have
\* produced their bytes
C12_TwoMembersDecoded ==
    /\ AtDone
    /\ stream = 16
    /\ Len(Streams[stream].members) = 2
    /\ Len(output) = 8

\* C13: a turn of a read in GZIPHeader with no input byte left ends the
\* read in Done with 0 bytes and no error, writes nothing and issues no
\* notification; reading the empty input never writes a byte, issues a
\* notification or fails
C13_EndOfInputBeforeMember ==
    [][
        /\ (state.tag = "GZIPHeader" /\ caller.pc = "reading" /\ reader.inner = <<>>)
            => (/\ state'.tag = "Done"
                /\ caller' = Idle(<<0>>)
                /\ calls' = calls
                /\ output' = output)
        /\ (Encoded[stream].bytes = <<>>)
            => (/\ calls' = <<>>
                /\ output' = <<>>
                /\ caller'.pc # "failed")
    ]_vars

\* C13, its case: the input ended right after the verified footer of a
\* member that produced bytes, and the read returned 0 in Done
C13_DoneAfterVerifiedFooter ==
    /\ AtDone
    /\ caller.ret = <<0>>
    /\ reader.inner = <<>>
    /\ Len(output) > 0
    /\ Len(calls) > 0

\* C14: Done is entered only from GZIPHeader and only when no input byte
\* is left; a stream cut off anywhere but between members never reaches
\* Done, read one byte at a time it ends with the error EOF, and every read
\* of it that fails fails with EOF and leaves the state where it was; a turn
\* of a read that starts a stored block, a dynamic block or a footer with no
\* input byte left fails with EOF
C14_EndOfInputElsewhereIsError ==
    [][
        /\ (state'.tag = "Done" /\ state.tag # "Done")
            => (state.tag = "GZIPHeader" /\ reader.inner = <<>>)
        /\ (Streams[stream].cut > 0)
            => (/\ state'.tag # "Done"
                /\ bytewise.err = "EOF"
                /\ caller'.ret # <<0>>
                /\ (caller'.pc = "failed")
                      => (caller'.err = "EOF" /\ state' = state))
        /\ (/\ caller.pc = "reading"
            /\ reader.inner = <<>>
            /\ state.tag \in {"PrepareNonCompressedBlock", "PrepareDynamicBlock",
                              "GZIPFooter"})
            => (caller'.pc = "failed" /\ caller'.err = "EOF" /\ state' = state)
    ]_vars

\* C14, its case: a read has failed with EOF inside the footer of a member
\* whose bytes were all written
C14_EndOfInputInFooter ==
    /\ caller.pc = "failed"
    /\ caller.err = "EOF"
    /\ state.tag = "GZIPFooter"
    /\ Len(output) = 2

\* C15: once the state is Done it stays Done: every later read returns 0
\* without an error after one turn, whatever its buffer size, and consumes
\* no input, leaves the window, the checkpoints and the output as they are
\* and issues no notification
C15_DoneIsAbsorbing ==
    [][
        (state.tag = "Done")
            => (/\ state' = state
                /\ reader' = reader
                /\ buffer' = buffer
                /\ checkpointer' = checkpointer
                /\ in_final_block' = in_final_block
                /\ calls' = calls
                /\ output' = output
                /\ (caller.pc = "reading") => (caller' = Idle(<<0>>))
                /\ caller'.pc # "failed")
    ]_vars

\* C15, its case: after the read that reached Done, another read, with a
\* buffer too large for a 16-bit length, is about to take its turn in Done
\* of a stream that produced bytes
C15_ReadAgainAtDone ==
    /\ state.tag = "Done"
    /\ caller.pc = "reading"
    /\ caller.buf_len = 65536
    /\ Len(output) > 0

\* the first block of the member block k belongs to: no block from it up
\* to k - 1 is a final one and the block before it, if any, is
MemberFirst(k) ==
    CHOOSE j \in 1..k :
        /\ \A i \in j..(k - 1) : ~Facts[i].final
        /\ (j = 1 \/ Facts[j - 1].final)

\* the bytes written so far by the member whose blocks are being decoded
MemberOut ==
    The({ [j \in DOMAIN o |-> o[j].args[1]]
          : o \in {SelectSeq(SubSeq(calls, StartOf(The({ i \in DOMAIN calls :
                                      /\ calls[i].op = "on_block_start"
                                      /\ BlockOf(i) = MemberFirst(NumStarts) })),
                                    Len(calls)),
                             LAMBDA c : c.op = "out")} })

\* C16: a turn of a read in GZIPFooter that has the four CRC32 bytes to read
\* fails with InvalidGZIPCRC, staying in GZIPFooter, exactly when they differ
\* from the CRC-32 of the bytes the blocks of this member wrote, however
\* many blocks and earlier members there were; either way it leaves a
\* fresh member digest, writes nothing and issues no notification
C16_TrailerCrcIsOfThisMember ==
    [][
        (state.tag = "GZIPFooter" /\ caller.pc = "reading" /\ Len(reader.inner) >= 4)
            => (/\ (caller'.pc = "failed" /\ caller'.err = "InvalidGZIPCRC")
                      <=> (u32_from_le_bytes(SubSeq(reader.inner, 1, 4))
                             # Crc32Of(MemberOut))
                /\ (caller'.pc = "failed") => (state' = state)
                /\ buffer'.gzip_digest = crc_digest
                /\ calls' = calls
                /\ output' = output)
    ]_vars

\* C16, its case: the first of two members has a CRC32 that does not match
\* and the read failed with InvalidGZIPCRC with only the first member's byte
\* written
C16_FirstMemberCrcMismatch ==
    /\ stream = 29
    /\ caller.pc = "failed"
    /\ caller.err = "InvalidGZIPCRC"
    /\ state.tag = "GZIPFooter"
    /\ output = <<104>>
    /\ NumStarts = 1

\* the number of bytes the current member has produced, modulo 2^32
MemberCount ==
    IF IsTail THEN U32Add(TailRead.count, Len(output))
    ELSE u32_of_nat(Len(MemberOut))

\* C17: a turn of a read in GZIPFooter that has the eight trailer bytes to
\* read and does not fail on the CRC32 fails with InvalidGZIPIsize, staying
\* in GZIPFooter, exactly when the ISIZE bytes differ from the number of
\* bytes this member produced modulo 2^32, and goes to GZIPHeader
\* otherwise; either way the member counter is 0 afterwards; writing the
\* bytes that take the counter past 2^32 - 1 does not fail
C17_TrailerIsizeIsMemberCountMod32 ==
    [][
        /\ (/\ state.tag = "GZIPFooter"
            /\ caller.pc = "reading"
            /\ Len(reader.inner) >= 8
            /\ ~(caller'.pc = "failed" /\ caller'.err = "InvalidGZIPCRC"))
            => (/\ (caller'.pc = "failed" /\ caller'.err = "InvalidGZIPIsize")
                      <=> (u32_from_le_bytes(SubSeq(reader.inner, 5, 8))
                             # MemberCount)
                /\ (caller'.pc = "failed") => (state' = state)
                /\ (caller'.pc # "failed") => (state'.tag = "GZIPHeader")
                /\ buffer'.counter = U32Zero)
        /\ (IsTail /\ state.tag = "NonCompressedBlock")
            => (caller'.pc # "failed")
    ]_vars

\* C17, its case: a member that had produced 2^32 - 1 bytes wrote two more
\* and its trailer, whose ISIZE is 1, was accepted: the decoder is at Done
\* with 2^32 + 1 bytes written in all and the counter back at 0
C17_CounterWrappedAndAccepted ==
    /\ IsTail
    /\ AtDone
    /\ output = TailBytes
    /\ buffer.bytes_written = <<U16, 1>>
    /\ buffer.counter = U32Zero
    /\ TailRead.isize = <<0, 1>>

\* C18: every read terminates, whatever the input and the length of the
\* buffer: read_internal returns after finitely many state transitions.
\* The loop of read_internal is deterministic and the buffer of a read does
\* not change, so a turn that stays in the loop and leaves the deflator as
\* it was is repeated for ever; a read that terminates has no such turn.
C18_EveryReadTerminates ==
    [][
        (caller.pc = "reading" /\ caller'.pc = "reading")
            => (Deflator' # Deflator)
    ]_vars

\* the first n bytes of a sequence, all of it when it is shorter
Prefix(seq, n) == SubSeq(seq, 1, Min(n, Len(seq)))

\* C19: one NonCompressedBlock transition that does not fail writes exactly
\* min(len, output space) bytes, the output space being the full length of
\* the caller's buffer: the bytes are the next ones of the input, they are
\* the newest of the window afterwards and they are returned in order; the
\* state becomes CheckIfFinalBlock iff nothing of the block remains and is
\* NonCompressedBlock with len reduced by the number written otherwise.
C19_StoredBodyWritesMin ==
    [][
        (state.tag = "NonCompressedBlock" /\ caller.pc = "reading"
                                          /\ caller'.pc # "failed")
            => (\E n \in {Min(state.len, caller.buf_len)} :
                    /\ output' = output \o Prefix(reader.inner, n)
                    /\ Len(output') = Len(output) + n
                    /\ reader'.inner = SubSeq(reader.inner, Len(output') - Len(output) + 1,
                                              Len(reader.inner))
                    /\ n <= Len(buffer.buffer)
                        => window_head(buffer', Min(n, Len(output') - Len(output)))
                               = SubSeq(output', Len(output) + 1, Len(output'))
                    /\ state'.tag = IF state.len = n THEN "CheckIfFinalBlock"
                                    ELSE "NonCompressedBlock"
                    /\ state.len # n => state'.len = state.len - n)
    ]_vars

\* C20: after DecodeBlock has applied a back-reference of length len, each
\* WriteLookback transition emits min(len - current, output space) bytes,
\* the output space being the full length of the caller's buffer; the
\* chunks emitted are, joined, the len newest bytes of the window in order
\* and each once; the state returns to DecodeBlock exactly when current
\* reaches len.
C20_LookbackChunks ==
    [][
        (state.tag = "WriteLookback" /\ caller.pc = "reading"
                                     /\ caller'.pc # "failed")
            => (\E n \in {Min(state.len - state.current, caller.buf_len)} :
                    /\ output' = output \o SubSeq(window_head(buffer, state.len),
                                                  state.current + 1, state.current + n)
                    /\ buffer' = buffer
                    /\ state'.tag = IF state.current + n = state.len THEN "DecodeBlock"
                                    ELSE "WriteLookback"
                    /\ state'.tag = "WriteLookback"
                        => (state'.current = state.current + n /\ state'.len = state.len)
                    /\ state'.tag = "DecodeBlock"
                        => (/\ Len(output') >= state.len
                            /\ SubSeq(output', Len(output') - state.len + 1, Len(output'))
                                   = window_head(buffer, state.len)))
    ]_vars

\* the part of a back-reference that is in the window and not yet emitted
Pending == IF state.tag = "WriteLookback" THEN state.len - state.current ELSE 0

\* C21: at every return from a read, with bytes, with 0 or with an error,
\* the bytes returned to the caller so far plus the part of a pending
\* back-reference not yet emitted are as many as the bytes the window has
\* been given; at BlockHeader the window has been given exactly the bytes
\* delivered.
C21_DeliveredPlusPendingIsWindowTotal ==
    /\ caller.pc # "reading" => Len(output) + Pending = get_bytes_written(buffer)
    /\ state.tag = "BlockHeader" => Len(output) = get_bytes_written(buffer)

\* C21, at the returns without an error: the bytes returned so far plus the
\* part of a pending back-reference not yet emitted are as many as the
\* bytes the window has been given; at BlockHeader the window has been given
\* exactly the bytes delivered.
C21_DeliveredPlusPendingAtOkReturn ==
    /\ caller.pc = "idle" => Len(output) + Pending = get_bytes_written(buffer)
    /\ state.tag = "BlockHeader" => Len(output) = get_bytes_written(buffer)

\* C21 happens: a read has returned bytes in the middle of a back-reference
C21_ReturnedInsideBackReference ==
    /\ caller.pc = "idle"
    /\ caller.ret # <<>>
    /\ state.tag = "WriteLookback"
    /\ state.current > 0
    /\ Pending > 0
    /\ Len(output) > state.current

\* C22: a WriteLookback transition reads no input, pushes nothing to the
\* window, changes neither digest nor counter, issues no notification and
\* keeps both trees, which are the ones DecodeBlock held when it decoded
\* the back-reference; a DecodeBlock transition that stops because the
\* buffer is full keeps both trees too.
C22_LookbackTouchesNothingAndKeepsTrees ==
    [][
        /\ (state.tag = "WriteLookback" /\ caller.pc = "reading")
                => (/\ caller'.pc # "failed"
                    /\ reader' = reader
                    /\ buffer' = buffer
                    /\ checkpointer' = checkpointer
                    /\ Notifications' = Notifications
                    /\ state'.tag \in {"WriteLookback", "DecodeBlock"}
                    /\ state'.symbol_tree = state.symbol_tree
                    /\ state'.distance_tree = state.distance_tree)
        /\ (state.tag = "DecodeBlock" /\ caller.pc = "reading"
                                      /\ state'.tag \in {"WriteLookback", "DecodeBlock"})
                => (/\ state'.symbol_tree = state.symbol_tree
                    /\ state'.distance_tree = state.distance_tree)
    ]_vars

\* C22 happens: the reads of "ab" and of the back-reference of length 3 at
\* distance 2 have returned and DecodeBlock holds the fixed trees again
C22_BackInDecodeBlockWithTrees ==
    /\ stream = 13
    /\ caller.pc = "idle"
    /\ state.tag = "DecodeBlock"
    /\ output = <<97, 98, 97, 98, 97>>
    /\ state.symbol_tree = fixed
    /\ state.distance_tree = fixed_dist

\* C23: a read returns to the caller before Done and without an error only
\* when it has filled the caller's buffer, and only in one of the states
\* NonCompressedBlock, DecodeBlock and WriteLookback.
C23_ReturnsOnlyWhenBufferFull ==
    [][
        (caller.pc = "reading" /\ caller'.pc = "idle" /\ state'.tag # "Done")
            => (/\ caller'.ret = <<caller.buf_len>>
                /\ state'.tag \in {"NonCompressedBlock", "DecodeBlock", "WriteLookback"})
    ]_vars

\* C23, as the code has it: a read returns before Done and without an error
\* only when the state transition it has just made wrote at least one
\* byte, and no more bytes than the buffer holds; the state is then
\* NonCompressedBlock, DecodeBlock, WriteLookback or CheckIfFinalBlock, and
\* the buffer need not be full.
C23_ReturnsOnceBytesWritten ==
    [][
        (caller.pc = "reading" /\ caller'.pc = "idle" /\ state'.tag # "Done")
            => (/\ caller'.ret # <<>>
                /\ caller'.ret[1] >= 1
                /\ caller'.ret[1] <= caller.buf_len
                /\ Len(output') = Len(output) + caller'.ret[1]
                /\ state.tag \in {"NonCompressedBlock", "DecodeBlock", "WriteLookback"}
                /\ state'.tag \in {"NonCompressedBlock", "DecodeBlock", "WriteLookback",
                                   "CheckIfFinalBlock"})
    ]_vars

\* C23 happens: the stored block of "abc" has been read by a read of two
\* bytes and a read that returned one byte, and the state is
\* CheckIfFinalBlock
C23_ReturnedAtCheckIfFinalBlock ==
    /\ stream = 12
    /\ caller.pc = "idle"
    /\ caller.ret = <<1>>
    /\ state.tag = "CheckIfFinalBlock"
    /\ output = <<97, 98, 99>>

\* C24: CheckIfFinalBlock moves to GZIPFooter iff the is_final bit of the
\* block header read last was 1 and to BlockHeader otherwise; in_final_block
\* is changed by the BlockHeader transition alone, which sets it to the
\* is_final bit of the header it reads, so the flag is never the one of an
\* earlier block or member.
C24_CheckFinalFollowsLastHeader ==
    [][
        /\ (state.tag = "CheckIfFinalBlock" /\ caller.pc = "reading")
                => (/\ NumStarts \in DOMAIN Facts
                    /\ in_final_block = Facts[NumStarts].final
                    /\ state'.tag = IF Facts[NumStarts].final THEN "GZIPFooter"
                                    ELSE "BlockHeader")
        /\ (in_final_block' # in_final_block) => (state.tag = "BlockHeader")
        /\ (state.tag = "BlockHeader" /\ caller.pc = "reading"
                                      /\ caller'.pc # "failed")
                => (/\ NumStarts' \in DOMAIN Facts
                    /\ in_final_block' = Facts[NumStarts'].final)
    ]_vars

\* C24 happens: in the second member, after a first member whose last block
\* was final, CheckIfFinalBlock has moved to BlockHeader behind a block
\* that is not final
C24_SecondMemberGoesOn ==
    /\ stream = 16
    /\ state.tag = "BlockHeader"
    /\ NumStarts = 3
    /\ ~in_final_block
    /\ Len(output) = 7

\* C25: in PrepareNonCompressedBlock, with LEN and NLEN the two 16-bit
\* little-endian numbers at the next byte boundary of the input: if NLEN is
\* not the complement of LEN the transition fails with
\* InvalidNonCompressedBlockHeader, on_block_data_start is not issued for
\* the block and no byte is produced; if it is, on_block_data_start is
\* issued exactly once and the state becomes NonCompressedBlock with len
\* LEN, also when LEN is 0.
C25_StoredHeaderChecked ==
    [][
        (state.tag = "PrepareNonCompressedBlock" /\ caller.pc = "reading"
                                                /\ Len(reader.inner) >= 4)
            => (\E len \in {reader.inner[1] + 256 * reader.inner[2]},
                   nlen \in {reader.inner[3] + 256 * reader.inner[4]} :
                    /\ CallsOf(NumStarts, "on_block_data_start") = {}
                    /\ output' = output
                    /\ buffer' = buffer
                    /\ IF len + nlen # U16 - 1
                       THEN /\ caller'.pc = "failed"
                            /\ caller'.err = "InvalidNonCompressedBlockHeader"
                            /\ calls' = calls
                       ELSE /\ caller'.pc # "failed"
                            /\ state' = StNonCompressedBlock(len)
                            /\ Len(calls') = Len(calls) + 1
                            /\ SubSeq(calls', 1, Len(calls)) = calls
                            /\ calls'[Len(calls')].op = "on_block_data_start")
    ]_vars

\* C25 happens: the read of the stored block with the damaged NLEN has
\* failed, with no on_block_data_start for the block and no output
C25_DamagedNlenRejected ==
    /\ stream = 30
    /\ caller.pc = "failed"
    /\ caller.err = "InvalidNonCompressedBlockHeader"
    /\ state.tag = "PrepareNonCompressedBlock"
    /\ NumStarts = 1
    /\ CallsOf(1, "on_block_data_start") = {}
    /\ output = <<>>

\* v + n for a usize v and n below 2^16
UsizeAdd(v, n) == <<v[1] + ((v[2] + n) \div U16), (v[2] + n) % U16>>

\* size pushes, each of the byte that lies lookback bytes before the head
\* at the time of the push
RECURSIVE SuccessivePushes(_, _, _)
SuccessivePushes(cb, lookback, size) ==
    IF size = 0 THEN cb
    ELSE SuccessivePushes(push(cb, window_head(cb, lookback)[1]), lookback, size - 1)

\* the last call was push_from_buffer, with a lookback inside the window,
\* and it has not failed
CopiedInsideWindow ==
    /\ probe.op.name = "push_from_buffer"
    /\ probe.op.lookback \in 1..ProbeCapacity
    /\ probe.op.err = <<NoErr, NoErr>>

\* C26: push_from_buffer(lookback, size) does what size successive pushes
\* do, each of the byte written lookback bytes before the head at that
\* moment, so with a lookback below the size the later pushes copy bytes of
\* the same call and lookback 1 repeats the last byte size times; both
\* counters advance by size.
C26_CopyIsSuccessivePushes ==
    [][
        CopiedInsideWindow'
            => (\E lookback \in {probe'.op.lookback}, size \in {probe'.op.size} :
                    /\ buffer' = SuccessivePushes(buffer, lookback, size)
                    /\ buffer'.counter = U32Add(buffer.counter, size)
                    /\ buffer'.bytes_written = UsizeAdd(buffer.bytes_written, size)
                    /\ probe'.pushed
                          = probe.pushed
                            \o [i \in 1..size |->
                                  IF i <= lookback
                                  THEN Held(probe.pushed)[Len(Held(probe.pushed))
                                                          - lookback + i]
                                  ELSE probe'.pushed[Len(probe.pushed) + i - lookback]]
                    /\ window_head(buffer', size)
                          = SubSeq(probe'.pushed, Len(probe.pushed) + 1,
                                   Len(probe'.pushed))
                    /\ lookback = 1
                        => window_head(buffer', size)
                             = [i \in 1..size |-> window_head(buffer, 1)[1]])
    ]_vars

\* C26 happens: after a push of 2, push_from_buffer(1, 3) has repeated the
\* byte three times and the counter has passed 2^32
C26_RunLengthAcrossWrap ==
    /\ CopiedInsideWindow
    /\ probe.op.lookback = 1
    /\ probe.op.size = 3
    /\ probe.pushed = <<2, 2, 2, 2>>
    /\ probe.start = <<U16 - 1, U16 - 2>>
    /\ buffer.counter = <<0, 2>>
    /\ buffer.bytes_written = <<U16, 2>>

\* C27: push_from_buffer fails with InvalidLengthDistancePair for every
\* lookback outside 1..32768, lookback 0 among them, and a call that fails
\* leaves the contents, the head, the digests and the counters of the
\* window as they were.
C27_LookbackOutsideRangeRefused ==
    [][
        /\ (probe'.op.name = "push_from_buffer" /\ probe'.op.lookback \notin 1..32768)
                => probe'.op.err[1] = "InvalidLengthDistancePair"
        /\ (probe'.op.name = "push_from_buffer" /\ probe'.op.err[1] # NoErr)
                => buffer' = buffer
    ]_vars

\* C28: the head a window starts with cannot be observed: two windows of
\* the same capacity created with different heads and given the same calls
\* of push and push_from_buffer return the same from these calls, from
\* head(n) for every n up to the capacity, from get_normalized_buffer, from
\* crc32 and block_crc32, from counter and from get_bytes_written.
C28_StartingHeadUnobservable ==
    probe.kind = "window"
        => (/\ probe.op.err[1] = probe.op.err[2]
            /\ \A n \in 0..ProbeCapacity :
                  window_head(buffer, n) = window_head(probe.twin, n)
            /\ get_normalized_buffer(buffer) = get_normalized_buffer(probe.twin)
            /\ crc32(buffer).v = crc32(probe.twin).v
            /\ block_crc32(buffer).v = block_crc32(probe.twin).v
            /\ counter(buffer).v = counter(probe.twin).v
            /\ buffer.bytes_written = probe.twin.bytes_written)

\* C28 happens: two windows whose heads differ, and whose bytes lie at
\* different places, have been given more bytes than they hold, the last of
\* them by push_from_buffer
C28_TwoHeadsSameCalls ==
    /\ probe.kind = "window"
    /\ buffer.head # probe.twin.head
    /\ buffer.buffer # probe.twin.buffer
    /\ probe.op.name = "push_from_buffer"
    /\ probe.op.size > 0
    /\ Len(probe.pushed) > ProbeCapacity

\* the n newest bytes the window has held, the oldest of them first
Newest(n) == SubSeq(Held(probe.pushed), Len(Held(probe.pushed)) - n + 1,
                    Len(Held(probe.pushed)))

\* C29: after any pushes, head(n) for n up to the capacity is the n bytes
\* pushed last, the oldest first and the newest last, also when the pushes
\* went round the end of the ring (where fewer than n bytes were pushed,
\* the zeroes of new come before them); get_normalized_buffer is
\* head(capacity), so after more pushes than the capacity it holds the
\* bytes pushed last and none of the older ones.
C29_HeadIsNewestOldestFirst ==
    probe.kind = "window"
        => (/\ \A n \in 0..ProbeCapacity : window_head(buffer, n) = Newest(n)
            /\ get_normalized_buffer(buffer) = window_head(buffer, ProbeCapacity)
            /\ Len(probe.pushed) > ProbeCapacity
                => get_normalized_buffer(buffer)
                     = SubSeq(probe.pushed, Len(probe.pushed) - ProbeCapacity + 1,
                              Len(probe.pushed)))

\* C29 happens: 1, 2, 1, 2 have been pushed to a window of three bytes, the
\* fourth byte has overwritten the first and the bytes do not lie in the
\* ring in the order they were pushed in
C29_WrappedAndOverwritten ==
    /\ probe.kind = "window"
    /\ probe.op.name = "push"
    /\ probe.pushed = <<1, 2, 1, 2>>
    /\ Len(probe.pushed) > Len(buffer.buffer)
    /\ buffer.head = 1
    /\ buffer.buffer[1] = 2
    /\ window_head(buffer, 3) = <<2, 1, 2>>

\* the number of symbols of bit_lengths whose code has l bits; no symbol
\* has a code of 0 bits
CodesOfLength(bit_lengths, l) ==
    IF l = 0 THEN 0
    ELSE Cardinality({i \in DOMAIN bit_lengths : bit_lengths[i] = l})

\* the first code of length l: 0 for length 0, and for the lengths above
\* the first code of the length below plus the number of codes of that
\* length, shifted left by one
RECURSIVE FirstCode(_, _)
FirstCode(bit_lengths, l) ==
    IF l = 0 THEN 0
    ELSE 2 * (FirstCode(bit_lengths, l - 1) + CodesOfLength(bit_lengths, l - 1))

\* the canonical code of the symbol at index i, whose length is not 0
CanonicalCode(bit_lengths, i) ==
    FirstCode(bit_lengths, bit_lengths[i])
    + Cardinality({j \in 1..(i - 1) : bit_lengths[j] = bit_lengths[i]})

\* C30: the table HuffmanTree::new builds holds the canonical codes, for
\* every vector of lengths in 0..15: a symbol of length 0 has no entry; a
\* symbol of another length has the entry of its canonical code, the codes
\* of one length being consecutive in symbol order from the first code of
\* the length, which is the first code of the length below plus the number
\* of codes of that length, shifted left by one, starting from 0.
C30_CanonicalCodesInTable ==
    (probe.kind = "huffman" /\ probe.built)
        => (\A i \in DOMAIN probe.bit_lengths :
              IF probe.bit_lengths[i] = 0
              THEN \A c \in DOMAIN probe.tree : probe.tree[c].symbol # i - 1
              ELSE /\ CanonicalCode(probe.bit_lengths, i) \in DOMAIN probe.tree
                   /\ probe.tree[CanonicalCode(probe.bit_lengths, i)]
                        = [symbol |-> i - 1, len |-> probe.bit_lengths[i]])

\* the entries of a table: code value, code length, symbol
Entries(tree) == {<<c, tree[c].len, tree[c].symbol>> : c \in DOMAIN tree}

\* C31: the lookup decode(code_value, bits) returns Some(symbol) exactly
\* when the table has an entry whose code value is code_value and whose
\* code length is bits, that entry's symbol being the one returned, and
\* None otherwise: a value that is numerically equal to a code but was
\* accumulated over a different number of bits does not match.
C31_LookupMatchesValueAndLength ==
    (probe.kind = "huffman" /\ probe.op.name = "lookup")
        => /\ \A symbol \in 0..(NumSymbols - 1) :
                 (probe.op.res = <<symbol>>)
                     <=> (<<probe.op.code, probe.op.len, symbol>>
                             \in Entries(probe.tree))
           /\ (probe.op.res = <<>>)
                 <=> (\A e \in Entries(probe.tree) :
                        e[1] # probe.op.code \/ e[2] # probe.op.len)

\* C31 witness: the code 10 of two bits is in the table; the value 2 looked
\* up as three bits is refused
C31_SameValueOtherLength ==
    /\ probe.kind = "huffman"
    /\ probe.op.name = "lookup"
    /\ probe.op.code = 2
    /\ probe.op.len = 3
    /\ <<2, 2, 1>> \in Entries(probe.tree)
    /\ probe.op.res = <<>>

\* the Kraft sum of the first i lengths, in units of 2^-15
RECURSIVE KraftSum(_, _)
KraftSum(bit_lengths, i) ==
    IF i = 0 THEN 0
    ELSE KraftSum(bit_lengths, i - 1)
         + (IF bit_lengths[i] = 0 THEN 0
            ELSE Pow2(MAX_HUFFMAN_BITS - bit_lengths[i]))

\* a vector of lengths that is not over-subscribed
KraftValid(bit_lengths) ==
    KraftSum(bit_lengths, Len(bit_lengths)) <= Pow2(MAX_HUFFMAN_BITS)

\* the value of the first k bits of a sequence, the first bit being the
\* most significant
RECURSIVE ValueMsbFirst(_, _)
ValueMsbFirst(bits, k) ==
    IF k = 0 THEN 0 ELSE 2 * ValueMsbFirst(bits, k - 1) + bits[k]

\* the bits of a source in the order read_bit hands them out
SourceBits(bytes) ==
    [i \in 1..(8 * Len(bytes)) |-> BitAt(bytes[((i - 1) \div 8) + 1], (i - 1) % 8)]

\* the bits of the source start with the canonical code of symbol s
Spells(bytes, bit_lengths, s) ==
    /\ bit_lengths[s + 1] > 0
    /\ 8 * Len(bytes) >= bit_lengths[s + 1]
    /\ ValueMsbFirst(SourceBits(bytes), bit_lengths[s + 1])
         = CanonicalCode(bit_lengths, s + 1)

\* the number of bits taken from a source by a reader that started on it
BitsRead(r) ==
    IF r.current_bit = 0 THEN 8 * r.current_byte
    ELSE 8 * (r.current_byte - 1) + r.current_bit

\* C32: for every vector of lengths that is not over-subscribed (Kraft sum
\* at most 1), no two symbols are stored under the same code value (every
\* symbol with a code has its entry) and no code in the table is a prefix
\* of another, so decoding bit by bit returns symbol s exactly when the
\* bits read spell the code of s, after as many bits as that code has and
\* never a different symbol at a shorter length.
C32_PrefixFreeDecoding ==
    (probe.kind = "huffman" /\ probe.built /\ KraftValid(probe.bit_lengths))
        => /\ {e[3] : e \in Entries(probe.tree)}
                 = {i - 1 : i \in {j \in DOMAIN probe.bit_lengths :
                                      probe.bit_lengths[j] > 0}}
           /\ \A e \in Entries(probe.tree), f \in Entries(probe.tree) :
                 (e # f /\ e[2] <= f[2])
                     => (f[1] \div Pow2(f[2] - e[2]) # e[1])
           /\ (probe.op.name = "decode")
                 => \A s \in 0..(NumSymbols - 1) :
                      /\ (probe.op.res.err = NoErr /\ probe.op.res.v = s)
                            <=> Spells(probe.op.bytes, probe.bit_lengths, s)
                      /\ (probe.op.res.err = NoErr /\ probe.op.res.v = s)
                            => (BitsRead(probe.op.res.r)
                                  = probe.bit_lengths[s + 1])

\* C32 witness: lengths 1, 2, 15, 15 and none; the source 3, 64 spells
\* 110000000000001, the code of symbol 3, and symbol 3 is returned after
\* fifteen bits, the values 1 and 3 read on the way being no code of one
\* or two bits
C32_LongCodeDecoded ==
    /\ probe.kind = "huffman"
    /\ probe.bit_lengths = <<1, 2, MAX_HUFFMAN_BITS, MAX_HUFFMAN_BITS, 0>>
    /\ probe.op.name = "decode"
    /\ probe.op.bytes = <<3, 64>>
    /\ probe.op.res.err = NoErr
    /\ probe.op.res.v = 3
    /\ BitsRead(probe.op.res.r) = MAX_HUFFMAN_BITS

\* the bits of a byte in the order they are read, as a number whose most
\* significant bit is the first bit read
ReadOrder(b) ==
    128 * BitAt(b, 0) + 64 * BitAt(b, 1) + 32 * BitAt(b, 2) + 16 * BitAt(b, 3)
    + 8 * BitAt(b, 4) + 4 * BitAt(b, 5) + 2 * BitAt(b, 6) + BitAt(b, 7)

\* the first sixteen bits of a source in the order they are read, as a
\* number whose most significant bit is the first bit read; bits that are
\* not there count as 0
FirstSixteen(bytes) ==
    IF Len(bytes) = 0 THEN 0
    ELSE IF Len(bytes) = 1 THEN 256 * ReadOrder(bytes[1])
    ELSE 256 * ReadOrder(bytes[1]) + ReadOrder(bytes[2])

\* the value of the first k of those sixteen bits, accumulated most
\* significant bit first
Accumulated(sixteen, k) == sixteen \div Pow2(16 - k)

\* the first length k in 1..15 at which the first k bits of the source are
\* there and their accumulated value is the code value of an entry of
\* length k; 0 when there is none
FirstMatch(bytes, tree) ==
    The({ The({ IF m = {} THEN 0 ELSE CHOOSE k \in m : \A j \in m : k <= j
                : m \in {{e[2] : e \in {f \in Entries(tree) :
                                          /\ f[2] <= 8 * Len(bytes)
                                          /\ f[1] = Accumulated(sixteen, f[2])}}} })
          : sixteen \in {FirstSixteen(bytes)} })

\* C33: decoding a symbol ends within sixteen bits: it returns the symbol
\* of the entry after k bits, k in 1..15, when the value accumulated most
\* significant bit first matches a table entry of length k (the first such
\* k), and it fails with InvalidHuffmanCode as soon as the accumulated
\* length exceeds 15 without a match, that is after the sixteenth bit; it
\* returns a symbol in no other case and never reads more than 16 bits.
C33_SymbolWithinSixteenBits ==
    (probe.kind = "huffman" /\ probe.op.name = "decode")
        => \A k \in {FirstMatch(probe.op.bytes, probe.tree)} :
             /\ BitsRead(probe.op.res.r) <= MAX_HUFFMAN_BITS + 1
             /\ (k # 0)
                   => /\ k \in 1..MAX_HUFFMAN_BITS
                      /\ probe.op.res.err = NoErr
                      /\ <<Accumulated(FirstSixteen(probe.op.bytes), k), k,
                            probe.op.res.v>> \in Entries(probe.tree)
                      /\ BitsRead(probe.op.res.r) = k
             /\ (k = 0) => (probe.op.res.err # NoErr)
             /\ (k = 0 /\ Len(probe.op.bytes) >= 2)
                   => /\ probe.op.res.err = "InvalidHuffmanCode"
                      /\ BitsRead(probe.op.res.r) = MAX_HUFFMAN_BITS + 1
             /\ (probe.op.res.err = "InvalidHuffmanCode")
                   => (k = 0 /\ Len(probe.op.bytes) >= 2)

\* C33 witness: the only code is 0; sixteen bits 1 are no code and the
\* decoding fails after the sixteenth
C33_SixteenBitsNoCode ==
    /\ probe.kind = "huffman"
    /\ probe.bit_lengths = <<1, 0, 0, 0, 0>>
    /\ probe.op.name = "decode"
    /\ probe.op.bytes = <<255, 255>>
    /\ probe.op.res.err = "InvalidHuffmanCode"
    /\ BitsRead(probe.op.res.r) = MAX_HUFFMAN_BITS + 1

\* C34: for every input, each symbol DecodeBlock treats as a length code
\* lies in 257..285 and each decoded distance symbol in 0..29, so the
\* base-length and base-distance tables are never indexed out of range: a
\* read that fails in DecodeBlock, as on a stream that encodes symbol 286,
\* 287 or the distance symbol 30 or 31, fails with an error value and not
\* with an out-of-range access.
C34_SymbolsIndexInsideTables ==
    (state.tag = "DecodeBlock" /\ caller.pc = "failed")
        => (caller.err # "panic")

\* HLIT, HDIST and their sum for the header driven
Hlit == probe.header.hlit + 257
Hdist == probe.header.hdist + 1
HeaderTotal == Hlit + Hdist

\* n times the length v
Repeated(v, n) == [i \in 1..n |-> v]

\* the lengths a list of code-length instructions describes, after the
\* lengths acc and until total lengths are there: a symbol below 16 is a
\* length, 16 repeats the length before it 3 + extra times, 17 stands for
\* 3 + extra zero lengths and 18 for 11 + extra; the lengths not described
\* are 0
RECURSIVE Described(_, _, _)
Described(instrs, acc, total) ==
    IF Len(acc) >= total THEN acc
    ELSE IF instrs = <<>> THEN acc \o Repeated(0, total - Len(acc))
    ELSE Described(Tail(instrs),
           acc \o (IF Head(instrs)[1] < 16 THEN <<Head(instrs)[1]>>
                   ELSE IF Head(instrs)[1] = 16
                   THEN (IF acc = <<>> THEN <<>>
                         ELSE Repeated(acc[Len(acc)], 3 + Head(instrs)[2]))
                   ELSE IF Head(instrs)[1] = 17
                   THEN Repeated(0, 3 + Head(instrs)[2])
                   ELSE Repeated(0, 11 + Head(instrs)[2])),
           total)

\* C35: in PrepareDynamicBlock the combined code-length vector holds
\* exactly HLIT + HDIST entries, for every HLIT in 257..288 and HDIST in
\* 1..32: filling it never runs out of the vector, no repeat code writes
\* an entry at index HLIT + HDIST or beyond, the literal/length table is
\* built from the entries [0, HLIT) and the distance table from exactly the
\* entries [HLIT, HLIT + HDIST).
C35_CombinedVectorIsHlitPlusHdist ==
    (probe.kind = "dynamic" /\ probe.op.name # "none")
        => /\ probe.op.err # "panic"
           /\ (probe.op.name = "read_combined_cls" /\ probe.op.err = NoErr)
                 => (\A i \in (HeaderTotal + 1)..Len(probe.op.cls) :
                       probe.op.cls[i] = 0)
           /\ (probe.op.name = "state_transition" /\ probe.op.err = NoErr)
                 => \A v \in {Described(probe.header.instrs, <<>>, HeaderTotal)} :
                      /\ state.tag = "DecodeBlock"
                      /\ state.symbol_tree = HuffmanTree_new(SubSeq(v, 1, Hlit))
                      /\ state.distance_tree
                           = HuffmanTree_new(SubSeq(v, Hlit + 1, HeaderTotal))

\* C36: in PrepareDynamicBlock, for a header whose HLIT + HDIST lengths
\* fit the vector, the code-length symbol 16 met at index 0, where no
\* previous length exists, fails with InvalidDynamicBlockCodeLength;
\* otherwise the instructions are carried out without error: symbol 16
\* repeats the length before it 3..6 times, 17 writes 3..10 zero lengths
\* and 18 writes 11..138, so that the vector holds the lengths the
\* instructions describe and zeros after them.
C36_RepeatCodesCarriedOut ==
    (/\ probe.kind = "dynamic"
     /\ probe.op.name = "read_combined_cls"
     /\ HeaderTotal <= Len(probe.op.cls))
        => IF probe.header.instrs # <<>> /\ probe.header.instrs[1][1] = 16
           THEN probe.op.err = "InvalidDynamicBlockCodeLength"
           ELSE /\ probe.op.err = NoErr
                /\ \A v \in {Described(probe.header.instrs, <<>>, HeaderTotal)} :
                      probe.op.cls
                        = v \o Repeated(0, Len(probe.op.cls) - Len(v))

\* C37: whatever calls the reader was given, current_byte is the number
\* of bytes consumed from the source, current_bit lies in 0..7, and
\* current_bit > 0 implies current_byte >= 1; a read_bit that succeeds
\* fetches a new byte exactly when current_bit is 0 and returns the bits of
\* each byte fetched least significant first: the bit current_bit of the
\* byte last fetched for bits, after which current_bit is one more, modulo 8.
C37_ReaderPositionsAndBitOrder ==
    [][
        (probe'.kind = "reader")
            => /\ reader'.current_byte
                    = Len(probe'.source) - Len(reader'.inner)
               /\ reader'.inner
                    = SubSeq(probe'.source, reader'.current_byte + 1,
                             Len(probe'.source))
               /\ reader'.current_bit \in 0..7
               /\ (reader'.current_bit > 0) => (reader'.current_byte >= 1)
               /\ (probe'.op.name = "read_bit" /\ probe'.op.err = NoErr)
                     => /\ (reader'.current_byte = reader.current_byte + 1)
                              <=> (reader.current_bit = 0)
                        /\ (reader'.current_byte = reader.current_byte)
                              <=> (reader.current_bit # 0)
                        /\ probe'.op.v
                              = BitAt(probe'.source[probe'.bit_byte],
                                      reader.current_bit)
                        /\ reader'.current_bit = (reader.current_bit + 1) % 8
    ]_vars

\* C37 witness: the source is 153, 28; a read_bit fetched the second byte
\* and returned its bit 0
C37_FirstBitOfSecondByte ==
    /\ probe.kind = "reader"
    /\ probe.source = <<153, 28>>
    /\ probe.op.name = "read_bit"
    /\ probe.op.err = NoErr
    /\ probe.op.v = 0
    /\ probe.bit_byte = 2
    /\ reader.current_byte = 2
    /\ reader.current_bit = 1

\* the bits read_bit has yet to hand out: the bits of the byte it fetched
\* last that are not read, then those of the bytes not consumed
UnreadBits(r) ==
    [i \in 1..((8 - r.current_bit) % 8) |-> BitAt(r.buffer, r.current_bit + i - 1)]
    \o SourceBits(r.inner)

\* the number whose bit i is bits[i + 1], for the first n bits
RECURSIVE ValueLsbFirst(_, _)
ValueLsbFirst(bits, n) ==
    IF n = 0 THEN 0 ELSE ValueLsbFirst(bits, n - 1) + bits[n] * Pow2(n - 1)

\* C38: read_n_bits_le(n) with n in 0..16 succeeds when n bits are left,
\* and then consumes exactly n bits and returns the value whose bit i is
\* the i-th bit read, also when the n bits span a byte boundary; with
\* n > 16 it fails with InvalidNumberOfBits and consumes nothing.
C38_NBitsLeastSignificantFirst ==
    [][
        (probe'.kind = "reader" /\ probe'.op.name = "read_n_bits_le")
            => IF probe'.op.n > 16
               THEN /\ probe'.op.err = "InvalidNumberOfBits"
                    /\ reader' = reader
               ELSE \A unread \in {UnreadBits(reader)} :
                      /\ (probe'.op.err = NoErr) <=> (Len(unread) >= probe'.op.n)
                      /\ (probe'.op.err = NoErr)
                            => /\ UnreadBits(reader')
                                    = SubSeq(unread, probe'.op.n + 1, Len(unread))
                               /\ probe'.op.v = ValueLsbFirst(unread, probe'.op.n)
    ]_vars

\* C38 witness: the source starts with 153, 28; three bits are read, and
\* then nine: the bits 3..7 of 153 and the bits 0..3 of 28, which make 403
C38_NineBitsAcrossBoundary ==
    /\ probe.kind = "reader"
    /\ Len(probe.source) >= 2
    /\ probe.source[1] = 153
    /\ probe.source[2] = 28
    /\ probe.op.name = "read_n_bits_le"
    /\ probe.op.n = 9
    /\ probe.op.err = NoErr
    /\ probe.op.v = 403
    /\ reader.current_byte = 2
    /\ reader.current_bit = 4

\* the arms of state_transition that read whole bytes (header fields; LEN
\* and NLEN; stored bytes; CRC32 and ISIZE), and those of them that call
\* discard_until_next_byte first
ByteReadArms ==
    {"GZIPHeader", "PrepareNonCompressedBlock", "NonCompressedBlock", "GZIPFooter"}
DiscardingArms == {"PrepareNonCompressedBlock", "GZIPFooter"}

\* C39: every read of whole bytes the decoder performs happens while
\* current_bit is 0: an arm that reads whole bytes starts at current_bit 0
\* unless it first drops the bits left with discard_until_next_byte, and
\* it ends at current_bit 0, so that no such read skips or interleaves with
\* bits of a partially consumed byte other than the ones dropped.
C39_ByteReadsAtBitZero ==
    [][
        (caller.pc = "reading" /\ state.tag \in ByteReadArms)
            => /\ (state.tag \notin DiscardingArms) => (reader.current_bit = 0)
               /\ reader'.current_bit = 0
    ]_vars

\* C39 witness: an empty fixed block, then a stored block whose three
\* header bits end at bit 5 of the twelfth byte; LEN and NLEN have been
\* read from the four bytes after it
C39_LenReadAfterPartialByte ==
    /\ stream = 2
    /\ state.tag = "NonCompressedBlock"
    /\ reader.current_byte = 16
    /\ reader.current_bit = 0
    /\ reader.buffer = Encoded[2].bytes[12]
    /\ \E i \in DOMAIN calls :
          /\ calls[i].op = "on_block_start"
          /\ calls[i].args[1] = 12
          /\ calls[i].args[2] = 2

\* the index of the first zero byte of s at or after i
RECURSIVE NulAt(_, _)
NulAt(s, i) == IF s[i] = 0 THEN i ELSE NulAt(s, i + 1)

\* the index of the last byte of a member header before the FHCRC field:
\* the ten fixed bytes, then XLEN and the extra data when FEXTRA is set,
\* the name with its terminator when FNAME is set and the comment with its
\* terminator when FCOMMENT is set
FieldsEnd(s) ==
    The({ The({ IF BitAt(s[4], 4) = 1 THEN NulAt(s, name + 1) ELSE name
                : name \in {IF BitAt(s[4], 3) = 1 THEN NulAt(s, extra + 1)
                            ELSE extra} })
          : extra \in {IF BitAt(s[4], 2) = 1 THEN 12 + s[11] + 256 * s[12]
                       ELSE 10} })

\* C40: the header CRC covers every header byte from the first magic byte
\* up to and including the last byte before FHCRC (the fixed fields,
\* FEXTRA, FNAME and FCOMMENT with their terminators) and not the FHCRC
\* field: when FHCRC is set and the header is read up to that field,
\* read_header succeeds if the sixteen bits stored there are the low
\* sixteen bits of that CRC and fails with InvalidHeaderCRC if they differ;
\* and no CRC scope is active after a header has been read successfully.
C40_HeaderCrcScope ==
    (probe.kind = "header" /\ probe.op.name = "read_header")
        => /\ (probe.op.err = NoErr) => (reader.digest = <<>>)
           /\ (/\ probe.op.err \in {NoErr, "InvalidHeaderCRC"}
               /\ BitAt(probe.source[4], 1) = 1)
                 => \A end \in {FieldsEnd(probe.source)} :
                      /\ reader.current_byte = end + 2
                      /\ (probe.op.err = NoErr)
                            <=> (probe.source[end + 1] + 256 * probe.source[end + 2]
                                   = Crc32Of(SubSeq(probe.source, 1, end))[2])
           /\ (probe.op.err = "InvalidHeaderCRC")
                 => (BitAt(probe.source[4], 1) = 1)

\* C40 witness: FLG sets FHCRC, FEXTRA, FNAME and FCOMMENT and the byte of
\* the name is changed; the stored CRC is no longer that of the bytes
\* before it, and the header is refused once the FHCRC field is read
C40_ChangedByteBeforeFhcrc ==
    /\ probe.kind = "header"
    /\ probe.op.name = "read_header"
    /\ probe.source = Damaged(HeaderBytes(30) \o <<3, 0>>, 8)
    /\ probe.op.err = "InvalidHeaderCRC"
    /\ reader.current_byte = Len(HeaderBytes(30))

====
